---- MODULE Spec2Model ----
(***************************************************************************)
(* A model of mcp-llm-bridge's conversation store                          *)
(* (src/src/mcp_llm_bridge/conversation.py).                                *)
(*                                                                         *)
(* Strings are sequences of one-character strings, so that sanitization,   *)
(* JSON escaping, line splitting and parsing are computed character by     *)
(* character as the Python code computes them.  A conversation file is the *)
(* flat character sequence the process has written to it.                  *)
(***************************************************************************)
EXTENDS Integers, Sequences, FiniteSets, TLC

VARIABLES
    jsonl,      \* <safe_id>.jsonl files: safe id -> characters of the file
    meta,       \* .metadata/<safe_id>.json sidecars: safe id -> metadata record
    legacy,     \* <safe_id>.json legacy files: safe id -> JSON array of messages
    bak,        \* <safe_id>.json.bak backups: safe id -> JSON array of messages
    synced,     \* safe id -> how many characters of the .jsonl file os.fsync made durable
    now,        \* the wall clock datetime.now() reads
    ret,        \* the last operation called, its arguments and what it returned
    proc,       \* position and locals of each writer inside a stepwise append_message
    acked,      \* the appends that have returned: writer, conversation id, message
    calls,      \* the adapter calls of the request in flight, one per slot
    srv,        \* the server tool call in flight and what the last one returned
    probe,      \* the test_adapter call in flight and what the last one returned
    sel,        \* the context selector's last call: its arguments and its result
    fault       \* the I/O failure the file system answers a migration with

\* what the store's operations leave alone: the adapters, the server tools,
\* the selector, and the condition of the file system
bridge == <<calls, srv, probe, sel, fault>>

vars == <<jsonl, meta, legacy, bak, synced, now, ret, proc, acked, calls, srv, probe, sel,
          fault>>

(***************************************************************************)
(* Bounds of the model.                                                    *)
(***************************************************************************)
\* most lines the store holds over all its conversation files
MaxMsgs == 2
\* most conversation files the store holds before auto-id creation stops
MaxConvs == 2
\* the clock's last reading: a restart after a crash is later than the crash
MaxNow == 2
\* the timeout_seconds of the adapters that configure one
TimeoutSeconds == 2
\* the adapters one call_llm_parallel names
MaxSlots == 2
\* the longest message list the selector is given
MaxHistory == 11
\* most lines the store holds once the adapters of a request have answered
MaxLog == 3

(***************************************************************************)
(* Constants of the program.                                               *)
(***************************************************************************)
\* topic of generated metadata: messages[0]["content"][:100]
TopicChars == 100
\* random.randint(1000, 9999): the two ends of the suffix range
RandLo == 1000
RandHi == 9999
\* config.get("timeout_seconds", 300)
DefaultTimeout == 300
\* messages[-10:] if len(messages) > 10
RecentCount == 10
\* if len(messages) < 10
SmartThreshold == 10
\* messages[-5:]
SmartTail == 5
\* len(content) + len(speaker) + 4
FormatChars == 4
\* total_chars // 4
CharsPerToken == 4

(***************************************************************************)
(* Characters and strings.                                                 *)
(***************************************************************************)
QUOTE == "\""
BSLASH == "\\"
NL == "\n"
SPACE == " "

Digits == <<"0", "1", "2", "3", "4", "5", "6", "7", "8", "9">>

\* str.isalnum() on the characters of the model's alphabet
isalnum(c) ==
    c \in {"a", "b", "c", "e", "g", "h", "i", "j", "l", "m", "n", "o", "r", "s", "t",
           "v", "x", "T",
           "0", "1", "2", "3", "4", "5", "6", "7", "8", "9"}

Range(s) == {s[i] : i \in 1..Len(s)}

IsPrefix(s, t) == Len(s) <= Len(t) /\ SubSeq(t, 1, Len(s)) = s

Last(s) == s[Len(s)]

\* str(n) for a non-negative integer
RECURSIVE IntToStr(_)
IntToStr(n) ==
    IF n < 10 THEN <<Digits[n + 1]>>
    ELSE IntToStr(n \div 10) \o <<Digits[(n % 10) + 1]>>

DigitVal(c) == CHOOSE d \in 0..9 : Digits[d + 1] = c

IsDigit(c) == \E d \in 1..10 : Digits[d] = c

\* the template of an adapter argument and the separator of history lines
Placeholder == <<"{", "m", "e", "s", "s", "a", "g", "e", "}">>
Bar == <<" ", "|", " ">>

(***************************************************************************)
(* JSON text of a message, one record per line (json.dump / json.loads).   *)
(* A message is [turn, speaker, content, timestamp]; its text is           *)
(*   { turn , "speaker" , "content" , "timestamp" }                        *)
(* with the field names left implicit in the positions.  The open          *)
(* "metadata" map of a message is passed through untouched by every        *)
(* operation and is not part of the record here.                           *)
(*                                                                         *)
(* Intermediate values are handed to a helper operator as an argument      *)
(* rather than named in a LET, so that each is computed once.              *)
(***************************************************************************)
\* an encoder that writes every character raw
escape_char_raw(c) == <<c>>

\* json's string escaping: quote, backslash and newline never appear raw
escape_char(c) ==
    IF c = QUOTE THEN <<BSLASH, QUOTE>>
    ELSE IF c = BSLASH THEN <<BSLASH, BSLASH>>
    ELSE IF c = NL THEN <<BSLASH, "n">>
    ELSE <<c>>

\* the string is escaped half by half, which is character by character
RECURSIVE json_escape(_)
json_escape(s) ==
    IF s = <<>> THEN <<>>
    ELSE IF Len(s) = 1 THEN escape_char(s[1])
    ELSE json_escape(SubSeq(s, 1, Len(s) \div 2))
             \o json_escape(SubSeq(s, (Len(s) \div 2) + 1, Len(s)))

json_string(s) == <<QUOTE>> \o json_escape(s) \o <<QUOTE>>

\* json.dump(message, f, ensure_ascii=False): the characters written
json_dump(m) ==
    <<"{">> \o IntToStr(m.turn) \o <<",">> \o json_string(m.speaker) \o <<",">>
        \o json_string(m.content) \o <<",">>
        \o json_string(m.timestamp) \o <<"}">>

ParseFail == [ok |-> FALSE, val |-> <<>>, next |-> 0]

least_or(hits, none) ==
    IF hits = {} THEN none ELSE CHOOSE k \in hits : \A j \in hits : k <= j

\* the first position from i on that holds one of the characters cs, or
\* Len(s) + 1 when there is none
first_of(s, i, cs) == least_or({k \in i..Len(s) : s[k] \in cs}, Len(s) + 1)

\* a JSON string starting after its opening quote at s[i]: ordinary characters
\* are taken as they are, up to the next quote, backslash or newline at j
RECURSIVE scan_string(_, _, _)
scan_special(s, j, got) ==
    IF j > Len(s) THEN ParseFail
    ELSE IF s[j] = QUOTE THEN [ok |-> TRUE, val |-> got, next |-> j + 1]
    ELSE IF s[j] = NL THEN ParseFail
    ELSE IF j + 1 > Len(s) THEN ParseFail
    ELSE IF s[j + 1] \in {QUOTE, BSLASH}
         THEN scan_string(s, j + 2, Append(got, s[j + 1]))
    ELSE IF s[j + 1] = "n" THEN scan_string(s, j + 2, Append(got, NL))
    ELSE ParseFail

scan_run(s, i, j, acc) == scan_special(s, j, acc \o SubSeq(s, i, j - 1))

scan_string(s, i, acc) == scan_run(s, i, first_of(s, i, {QUOTE, BSLASH, NL}), acc)

parse_string(s, i) ==
    IF i <= Len(s) /\ s[i] = QUOTE THEN scan_string(s, i + 1, <<>>) ELSE ParseFail

\* a JSON integer starting at s[i]
RECURSIVE scan_int(_, _, _)
scan_int(s, i, acc) ==
    IF i <= Len(s) /\ IsDigit(s[i]) THEN scan_int(s, i + 1, acc * 10 + DigitVal(s[i]))
    ELSE [ok |-> TRUE, val |-> acc, next |-> i]

parse_int(s, i) ==
    IF i <= Len(s) /\ IsDigit(s[i]) THEN scan_int(s, i, 0) ELSE ParseFail

expect(s, i, c) == i <= Len(s) /\ s[i] = c

\* what stands where a message would when there is none
NoMessage == [turn |-> 0, speaker |-> <<>>, content |-> <<>>, timestamp |-> <<>>]

LoadsFail == [ok |-> FALSE, msg |-> NoMessage]

\* json.loads(line): the message, or a JSONDecodeError (ok = FALSE).  Each
\* step takes the fields parsed so far: t the turn, sp the speaker, co the
\* content, ts the timestamp.
loads_timestamp(s, t, sp, co, ts) ==
    IF ~ts.ok \/ ~expect(s, ts.next, "}") \/ ts.next # Len(s) THEN LoadsFail
    ELSE [ok |-> TRUE,
          msg |-> [turn |-> t.val, speaker |-> sp.val, content |-> co.val,
                   timestamp |-> ts.val]]

loads_content(s, t, sp, co) ==
    IF ~co.ok \/ ~expect(s, co.next, ",") THEN LoadsFail
    ELSE loads_timestamp(s, t, sp, co, parse_string(s, co.next + 1))

loads_speaker(s, t, sp) ==
    IF ~sp.ok \/ ~expect(s, sp.next, ",") THEN LoadsFail
    ELSE loads_content(s, t, sp, parse_string(s, sp.next + 1))

loads_turn(s, t) ==
    IF ~t.ok \/ ~expect(s, t.next, ",") THEN LoadsFail
    ELSE loads_speaker(s, t, parse_string(s, t.next + 1))

json_loads(s) ==
    IF ~expect(s, 1, "{") THEN LoadsFail ELSE loads_turn(s, parse_int(s, 2))

\* str.strip(): leading and trailing whitespace removed
RECURSIVE lstrip(_)
lstrip(s) ==
    IF s # <<>> /\ Head(s) \in {SPACE, NL} THEN lstrip(Tail(s)) ELSE s

RECURSIVE rstrip(_)
rstrip(s) ==
    IF s # <<>> /\ Last(s) \in {SPACE, NL} THEN rstrip(SubSeq(s, 1, Len(s) - 1)) ELSE s

strip(s) == rstrip(lstrip(s))

\* iterating a text file: the lines, each up to and including its newline at
\* j, and an unterminated last line when the file does not end in a newline
RECURSIVE split_lines(_, _)
split_at(text, i, j) ==
    IF j > Len(text) THEN <<SubSeq(text, i, Len(text))>>
    ELSE <<SubSeq(text, i, j)>> \o split_lines(text, j + 1)

split_lines(text, i) ==
    IF i > Len(text) THEN <<>> ELSE split_at(text, i, first_of(text, i, {NL}))

file_lines(text) == split_lines(text, 1)

(***************************************************************************)
(* The files of the store.  Each kind of file is a function from the safe  *)
(* ids that have such a file to its content: the file exists exactly when  *)
(* its id is in the function's domain.  fs is the four kinds together,     *)
(* with how much of each .jsonl file os.fsync has made durable.            *)
(***************************************************************************)
Put(f, k, v) == [x \in (DOMAIN f) \cup {k} |-> IF x = k THEN v ELSE f[x]]

Del(f, k) == [x \in (DOMAIN f) \ {k} |-> f[x]]

NoFiles == [x \in {} |-> <<>>]

FS == [jsonl |-> jsonl, meta |-> meta, legacy |-> legacy, bak |-> bak,
       synced |-> synced, fault |-> fault]

\* datetime.now().isoformat(): fixed width, so that string order is time order
isoformat(t) == <<Digits[(t \div 10) + 1], Digits[(t % 10) + 1]>>

\* a sanitizer that only drops the characters it does not keep
sanitize_id_lenient(conversation_id) ==
    SelectSeq(conversation_id, LAMBDA c : isalnum(c) \/ c \in {"-", "_"})

sanitize_id(conversation_id) ==
    IF "/" \in Range(conversation_id) \/ BSLASH \in Range(conversation_id)
       \/ \E i \in 1..(Len(conversation_id) - 1) :
              conversation_id[i] = "." /\ conversation_id[i + 1] = "."
    THEN <<>>
    ELSE SelectSeq(conversation_id, LAMBDA c : isalnum(c) \/ c \in {"-", "_"})

\* the path's stem: the file is <stem>.jsonl in the conversation directory
get_conversation_path(conversation_id) == sanitize_id(conversation_id)

\* the path's stem: the file is .metadata/<stem>.json
get_metadata_path(conversation_id) == sanitize_id(conversation_id)

conversation_exists(fs, conversation_id) ==
    \/ get_conversation_path(conversation_id) \in DOMAIN fs.jsonl
    \/ sanitize_id(conversation_id) \in DOMAIN fs.legacy

\* the characters of a .jsonl file holding these messages, one per line
RECURSIVE jsonl_text(_)
jsonl_text(messages) ==
    IF messages = <<>> THEN <<>>
    ELSE json_dump(Head(messages)) \o <<NL>> \o jsonl_text(Tail(messages))

\* f.flush() and os.fsync(f.fileno()): what the file holds is durable
fsync(fs, path) == [fs EXCEPT !.synced = Put(fs.synced, path, Len(fs.jsonl[path]))]

\* the failure a migration meets: none, or an OSError when the legacy file
\* is read, when the .jsonl file is opened, when it is written (kept
\* characters have reached it by then), or when the legacy file is renamed
NoFault == [kind |-> "none", kept |-> 0]

RECURSIVE reversed(_)
reversed(messages) ==
    IF messages = <<>> THEN <<>> ELSE reversed(Tail(messages)) \o <<Head(messages)>>

\* a migration that writes the messages last to first
migrate_written_reversed(fs, safe_id, jsonl_path) ==
    [fs EXCEPT !.jsonl = Put(fs.jsonl, jsonl_path,
                             jsonl_text(reversed(fs.legacy[safe_id]))),
               !.synced = Put(fs.synced, jsonl_path,
                              Len(jsonl_text(fs.legacy[safe_id])))]

\* lines 348-355: the messages written out as lines, flushed and fsynced
migrate_written(fs, safe_id, jsonl_path) ==
    [fs EXCEPT !.jsonl = Put(fs.jsonl, jsonl_path, jsonl_text(fs.legacy[safe_id])),
               !.synced = Put(fs.synced, jsonl_path,
                              Len(jsonl_text(fs.legacy[safe_id])))]

\* lines 360-366: the legacy file renamed to its backup, unless that fails
migrate_backup(fs, safe_id) ==
    IF fs.fault.kind = "rename" THEN fs
    ELSE [fs EXCEPT !.legacy = Del(fs.legacy, safe_id),
                    !.bak = Put(fs.bak, safe_id, fs.legacy[safe_id])]

\* the first n characters of a text
head_chars(text, n) == SubSeq(text, 1, IF n < Len(text) THEN n ELSE Len(text))

\* a failed write that goes on to the rename
migrate_failed_renames(fs, safe_id, jsonl_path) ==
    [fs EXCEPT !.legacy = Del(fs.legacy, safe_id),
               !.bak = Put(fs.bak, safe_id, fs.legacy[safe_id])]

\* lines 356-358: the write failed and the migration returns; open("w") has
\* made the file unless it was the open that failed
migrate_failed(fs, safe_id, jsonl_path) ==
    IF fs.fault.kind = "open" THEN fs
    ELSE [fs EXCEPT !.jsonl = Put(fs.jsonl, jsonl_path,
                                  head_chars(jsonl_text(fs.legacy[safe_id]),
                                             fs.fault.kept))]

\* the legacy file is read, written out as lines and renamed to its backup
migrate_file(fs, safe_id, jsonl_path) ==
    IF fs.fault.kind = "read" THEN fs
    ELSE IF fs.fault.kind \in {"open", "write"}
    THEN migrate_failed(fs, safe_id, jsonl_path)
    ELSE migrate_backup(migrate_written(fs, safe_id, jsonl_path), safe_id)

\* a migration that does not look whether the .jsonl file is there
migrate_paths_again(fs, safe_id, jsonl_path) ==
    IF safe_id \notin DOMAIN fs.legacy THEN fs
    ELSE migrate_file(fs, safe_id, jsonl_path)

migrate_paths(fs, safe_id, jsonl_path) ==
    IF jsonl_path \in DOMAIN fs.jsonl THEN fs
    ELSE IF safe_id \notin DOMAIN fs.legacy THEN fs
    ELSE migrate_file(fs, safe_id, jsonl_path)

migrate_if_needed(fs, conversation_id) ==
    migrate_paths(fs, sanitize_id(conversation_id),
                  get_conversation_path(conversation_id))

\* a reader that keeps what a line gave whether or not it parsed
take_any(loaded, rest) == <<loaded.msg>> \o rest

\* the lines of a file that parse, in file order; the others are skipped
take_parsed(loaded, rest) == IF loaded.ok THEN <<loaded.msg>> \o rest ELSE rest

parse_line(line, rest) == IF line = <<>> THEN rest ELSE take_parsed(json_loads(line), rest)

RECURSIVE parse_lines(_)
parse_lines(lines) ==
    IF lines = <<>> THEN <<>>
    ELSE parse_line(strip(Head(lines)), parse_lines(Tail(lines)))

read_file(fs, conv_path) ==
    IF conv_path \notin DOMAIN fs.jsonl THEN [fs |-> fs, result |-> <<>>]
    ELSE [fs |-> fs, result |-> parse_lines(file_lines(fs.jsonl[conv_path]))]

\* read_messages without a slice: the store after it, and the messages returned
read_messages(fs, conversation_id) ==
    read_file(migrate_if_needed(fs, conversation_id),
              get_conversation_path(conversation_id))

count_messages(fs, conversation_id) == Len(read_messages(fs, conversation_id).result)

\* the sidecar is written whole and read back whole (json.dump, json.load of a
\* dict of strings, numbers and lists): it holds the metadata record
save_metadata(fs, conversation_id, metadata) ==
    [fs EXCEPT !.meta = Put(fs.meta, get_metadata_path(conversation_id), metadata)]

speakers_of(messages) == {messages[i].speaker : i \in 1..Len(messages)}

\* list(set(...)): the distinct elements in the set's iteration order, which is
\* the order they have in ord, an arrangement of all speakers the caller picks
list_of_set(S, ord) == SelectSeq(ord, LAMBDA x : x \in S)

\* s[:n]
first_chars(s, n) == SubSeq(s, 1, IF Len(s) < n THEN Len(s) ELSE n)

save_generated(fs, conversation_id, metadata) ==
    [fs |-> save_metadata(fs, conversation_id, metadata), result |-> metadata]

\* generate_metadata once it has read the messages: r is what read_messages gave
generate_from(r, conversation_id, t, ord) ==
    IF r.result = <<>>
    THEN [fs |-> r.fs,
          result |-> [id |-> conversation_id, created_at |-> isoformat(t),
                      updated_at |-> isoformat(t), participants |-> <<>>,
                      message_count |-> 0, topic |-> <<>>, has_tags |-> FALSE,
                      tags |-> <<>>, status |-> "active"]]
    ELSE save_generated(r.fs, conversation_id,
             [id |-> conversation_id, created_at |-> r.result[1].timestamp,
              updated_at |-> Last(r.result).timestamp,
              participants |-> list_of_set(speakers_of(r.result), ord),
              message_count |-> Len(r.result),
              topic |-> first_chars(r.result[1].content, TopicChars),
              has_tags |-> FALSE, tags |-> <<>>, status |-> "active"])

generate_metadata(fs, conversation_id, t, ord) ==
    generate_from(read_messages(fs, conversation_id), conversation_id, t, ord)

get_metadata(fs, conversation_id, t, ord) ==
    IF get_metadata_path(conversation_id) \notin DOMAIN fs.meta
    THEN generate_metadata(fs, conversation_id, t, ord)
    ELSE [fs |-> fs, result |-> fs.meta[get_metadata_path(conversation_id)]]

\* an update that leaves the cached count and participants as they were
update_fields_stale(r, metadata, conversation_id, speaker, t) ==
    save_metadata(r.fs, conversation_id, [metadata EXCEPT !.updated_at = isoformat(t)])

\* update_metadata_on_append once it has the metadata and has counted: r is
\* what the count's read_messages gave
update_fields(r, metadata, conversation_id, speaker, t) ==
    save_metadata(r.fs, conversation_id,
        [metadata EXCEPT
            !.updated_at = isoformat(t),
            !.message_count = Len(r.result),
            !.participants = IF speaker \in Range(metadata.participants)
                             THEN metadata.participants
                             ELSE Append(metadata.participants, speaker)])

update_counted(g, conversation_id, speaker, t) ==
    update_fields(read_messages(g.fs, conversation_id), g.result, conversation_id,
                  speaker, t)

update_metadata_on_append(fs, conversation_id, speaker, t, ord) ==
    update_counted(get_metadata(fs, conversation_id, t, ord), conversation_id,
                   speaker, t)

\* open(conv_path, "w") and write: the file holds text and nothing else
write_truncate(fs, conv_path, text) ==
    [fs EXCEPT !.jsonl = Put(fs.jsonl, conv_path, text)]

\* open(conv_path, "a") and write: the file is created when missing, and text
\* is added at its end
write_append(fs, conv_path, text) ==
    [fs EXCEPT !.jsonl = Put(fs.jsonl, conv_path,
                             (IF conv_path \in DOMAIN fs.jsonl
                              THEN fs.jsonl[conv_path] ELSE <<>>) \o text)]

\* a message whose turn is the count itself
new_message_turn_count(message_count, speaker, content, t) ==
    [turn |-> message_count, speaker |-> speaker, content |-> content,
     timestamp |-> isoformat(t)]

\* the message append_message builds once it has counted the log
new_message(message_count, speaker, content, t) ==
    [turn |-> message_count + 1, speaker |-> speaker, content |-> content,
     timestamp |-> isoformat(t)]

\* json.dump(message, f) and f.write("\n"): the characters of one record
record_text(message) == json_dump(message) \o <<NL>>

\* append_message once it has counted: r is what the count's read_messages gave
append_counted(r, conversation_id, speaker, content, t, ord) ==
    update_metadata_on_append(
        fsync(write_append(r.fs, get_conversation_path(conversation_id),
                           record_text(new_message(Len(r.result), speaker, content, t))),
              get_conversation_path(conversation_id)),
        conversation_id, speaker, t, ord)

append_message(fs, conversation_id, speaker, content, t, ord) ==
    append_counted(read_messages(migrate_if_needed(fs, conversation_id),
                                 conversation_id),
                   conversation_id, speaker, content, t, ord)

\* datetime.now().strftime("%Y%m%d_%H%M%S_%f"): digit groups joined by "_"
strftime(t) == <<Digits[(t \div 10) + 1], "_", Digits[(t % 10) + 1]>>

\* the id create_conversation makes up when it is given none
generated_id(t, random_suffix) ==
    <<"c", "o", "n", "v", "e", "r", "s", "a", "t", "i", "o", "n", "_">>
        \o strftime(t) \o <<"_">> \o IntToStr(random_suffix)

\* the speaker without the host's label
host_speaker_bare(host_name) == <<"h", "o", "s", "t">>

host_speaker(host_name) ==
    IF host_name # <<>> THEN <<"h", "o", "s", "t", "_">> \o host_name
    ELSE <<"h", "o", "s", "t">>

initial_metadata(sanitized_id, initial_message, topic, host_name, t) ==
    [id |-> sanitized_id, created_at |-> isoformat(t), updated_at |-> isoformat(t),
     participants |-> IF initial_message # <<>> THEN <<host_speaker(host_name)>>
                      ELSE <<>>,
     message_count |-> IF initial_message # <<>> THEN 1 ELSE 0,
     topic |-> IF topic # <<>> THEN topic[1] ELSE <<>>,
     has_tags |-> TRUE, tags |-> <<>>, status |-> "active"]

\* conv_path.touch(), the initial message, the metadata
create_files(fs, sanitized_id, initial_message, topic, host_name, t, ord) ==
    save_metadata(
        IF initial_message # <<>>
        THEN append_message(write_append(fs, get_conversation_path(sanitized_id), <<>>),
                            sanitized_id, host_speaker(host_name), initial_message,
                            t, ord)
        ELSE write_append(fs, get_conversation_path(sanitized_id), <<>>),
        sanitized_id,
        initial_metadata(sanitized_id, initial_message, topic, host_name, t))

\* the creation without the test for an existing conversation
create_sanitized_over(fs, sanitized_id, initial_message, topic, host_name, t, ord) ==
    IF sanitized_id = <<>> THEN [fs |-> fs, result |-> <<>>, raised |-> FALSE]
    ELSE [fs |-> create_files(fs, sanitized_id, initial_message, topic, host_name,
                              t, ord),
          result |-> sanitized_id, raised |-> FALSE]

create_sanitized(fs, sanitized_id, initial_message, topic, host_name, t, ord) ==
    IF sanitized_id = <<>> THEN [fs |-> fs, result |-> <<>>, raised |-> FALSE]
    ELSE IF conversation_exists(fs, sanitized_id)
    THEN [fs |-> fs, result |-> <<>>, raised |-> TRUE]
    ELSE [fs |-> create_files(fs, sanitized_id, initial_message, topic, host_name,
                              t, ord),
          result |-> sanitized_id, raised |-> FALSE]

\* create_conversation: the store after it, the id returned, and whether it
\* raised ValueError (already exists) instead of returning.  topic is the
\* caller's metadata: <<>> for no metadata, <<text>> for {"topic": text}.
\* a create that takes the id as it was given
create_conversation_verbatim(fs, given_id, initial_message, topic, host_name, t, random_suffix, ord) ==
    create_sanitized(fs,
        IF given_id = <<>> THEN generated_id(t, random_suffix) ELSE given_id,
        initial_message, topic, host_name, t, ord)

create_conversation(fs, given_id, initial_message, topic, host_name, t, random_suffix, ord) ==
    create_sanitized(fs,
        sanitize_id(IF given_id = <<>> THEN generated_id(t, random_suffix)
                    ELSE given_id),
        initial_message, topic, host_name, t, ord)

\* Path.stem of a globbed file: the name without its suffix, except that the
\* file of the empty id, ".jsonl" or ".json", is a dot file with no suffix
path_stem(safe_id, suffix) == IF safe_id = <<>> THEN <<".">> \o suffix ELSE safe_id

\* the loop bodies of list_conversations: get_metadata of every id in ids
RECURSIVE list_get_metadata(_, _, _, _)
list_collect(g, rest) ==
    [fs |-> rest.fs, result |-> rest.result \cup {g.result}, n |-> rest.n + 1]

list_rest(g, rest_ids, t, ord) ==
    list_collect(g, list_get_metadata(g.fs, rest_ids, t, ord))

list_one(fs, ids, conv_id, t, ord) ==
    list_rest(get_metadata(fs, conv_id, t, ord), ids \ {conv_id}, t, ord)

list_get_metadata(fs, ids, t, ord) ==
    IF ids = {} THEN [fs |-> fs, result |-> {}, n |-> 0]
    ELSE list_one(fs, ids, CHOOSE x \in ids : TRUE, t, ord)

\* the legacy loop without the seen_ids test
list_legacy_again(first, seen_ids, t, ord) ==
    list_get_metadata(first.fs,
        {path_stem(x, <<"j", "s", "o", "n">>) : x \in DOMAIN first.fs.legacy},
        t, ord)

list_legacy(first, seen_ids, t, ord) ==
    list_get_metadata(first.fs,
        {path_stem(x, <<"j", "s", "o", "n">>) : x \in DOMAIN first.fs.legacy}
            \ seen_ids,
        t, ord)

list_both(first, second) ==
    [fs |-> second.fs, result |-> first.result \cup second.result,
     n |-> first.n + second.n]

list_seen(fs, seen_ids, first, t, ord) ==
    list_both(first, list_legacy(first, seen_ids, t, ord))

list_globbed(fs, seen_ids, t, ord) ==
    list_seen(fs, seen_ids, list_get_metadata(fs, seen_ids, t, ord), t, ord)

\* list_conversations: the store after it, the metadata it collected and how
\* many entries it collected them in
list_conversations(fs, t, ord) ==
    list_globbed(fs, {path_stem(x, <<"j", "s", "o", "n", "l">>) : x \in DOMAIN fs.jsonl},
                 t, ord)

(***************************************************************************)
(* The inputs the operations are called with.                              *)
(***************************************************************************)
NoId == <<>>
ConvId == <<"c", "o", "n", "v", "_", "1">>
DottedId == <<"c", "o", "n", "v", "_", "1", ".">>
TraversalId == <<".", ".", "/", "x">>
DotsId == <<"a", ".", ".", "b">>
DotId == <<".">>
SlashId == <<"a", "/", "b">>
BackslashId == <<"a", BSLASH, "b">>
InvalidIds == {TraversalId, DotsId, DotId, SlashId, BackslashId}

Hi == <<"h", "i">>
\* one character longer than a topic, with a newline, a quote, a backslash
\* and a brace near its start
Long ==
    [i \in 1..(TopicChars + 1) |->
        IF i = 2 THEN NL ELSE IF i = 3 THEN QUOTE ELSE IF i = 4 THEN BSLASH
        ELSE IF i = 5 THEN "}" ELSE IF i = TopicChars + 1 THEN "i" ELSE "x"]
Topic == <<"T">>

Bot == <<"b", "o", "t">>
Host == <<"h", "o", "s", "t">>
HostM == <<"h", "o", "s", "t", "_", "m">>
Bob == <<"b", "o", "b">>
Gone == <<"g", "o", "n", "e">>
Web == <<"w", "e", "b">>
Nope == <<"n", "o", "p", "e">>
Llm == <<"l", "l", "m">>
Bash == <<"b", "a", "s", "h">>
Http == <<"h", "t", "t", "p">>

\* adapters.json: Bot reads the message on stdin and has a timeout, Bob takes
\* it in an argument and has the default timeout, Gone names a command that
\* is not installed, Web is of a type other than bash; Nope is no adapter
Adapters ==
    (Bot :> [type |-> Bash, command |-> Llm, args |-> <<>>,
             input_method |-> "stdin", timeout_seconds |-> TimeoutSeconds])
    @@ (Bob :> [type |-> Bash, command |-> Llm,
                args |-> <<<<"-", "p">>, <<"Q", ":">> \o Placeholder>>,
                input_method |-> "arg"])
    @@ (Gone :> [type |-> Bash, command |-> Gone, args |-> <<>>,
                 input_method |-> "stdin", timeout_seconds |-> TimeoutSeconds])
    @@ (Web :> [type |-> Http])
AdapterNames == {Bot, Bob, Gone, Web, Nope}

\* the commands the executable lookup finds
Installed == {Llm}

\* what an adapter process can leave: exit code, stdout, stderr
ExitCodes == {0, 1}
Stdouts == {<<>>, <<" ", "o", "k", NL>>}
Stderrs == {<<>>, <<NL>>, <<"e", "r", "r", NL>>}
Exits == [returncode : ExitCodes, stdout : Stdouts, stderr : Stderrs]

\* str(e) of an exception other than FileNotFoundError and TimeoutError
ExceptionTexts == {<<>>, <<"b", "o", "o", "m">>}

\* create_conversation's initial_message, metadata and host_name:
\* im is the initial message, tp is <<>> for no metadata and <<topic>> for
\* {"topic": topic}, hn is the host name
CreateInputs ==
    {[im |-> <<>>, tp |-> <<>>, hn |-> <<>>],
     [im |-> Hi, tp |-> <<>>, hn |-> <<>>],
     [im |-> Hi, tp |-> <<Topic>>, hn |-> <<"m">>]}

\* append_message's speaker and content
AppendInputs ==
    {[sp |-> Bot, co |-> Hi], [sp |-> Bot, co |-> Long], [sp |-> Host, co |-> Hi]}

\* the iteration orders a set of speakers can have: str hashes are salted
\* per process, so the order is not the order of insertion.  Two arrangements
\* of the speakers, one the reverse of the other, stand for all of them.
SpeakerOrders == {<<Bot, Bob, Host, HostM>>, <<HostM, Host, Bob, Bot>>}

\* random.randint(RandLo, RandHi), drawn only when no id is given
RandomSuffixes(given_id) == IF given_id = <<>> THEN {RandLo, RandHi} ELSE {RandLo}

\* the arrangements that can make a difference to an operation on ids: an
\* arrangement is consulted only when metadata is generated, which is when the
\* metadata file of an id is missing
Orders(metas, ids) ==
    IF \A x \in ids : get_metadata_path(x) \in DOMAIN metas
    THEN {CHOOSE ord \in SpeakerOrders : TRUE}
    ELSE SpeakerOrders

\* create_conversation appends to a log it has just made: the set of its
\* speakers has one element and one order
CreateOrders == {CHOOSE ord \in SpeakerOrders : TRUE}

\* a store left by the version that kept one JSON array per conversation,
\* with a sidecar that agrees with the array
LegacyMessages ==
    <<[turn |-> 1, speaker |-> Host, content |-> Hi, timestamp |-> isoformat(0)]>>
\* a legacy file of two messages, the second with characters that JSON escapes
LegacyPair ==
    <<[turn |-> 1, speaker |-> Host, content |-> Hi, timestamp |-> isoformat(0)],
      [turn |-> 2, speaker |-> Bot, content |-> Long, timestamp |-> isoformat(0)]>>
PairMetadata ==
    [id |-> ConvId, created_at |-> isoformat(0), updated_at |-> isoformat(0),
     participants |-> <<Host, Bot>>, message_count |-> 2, topic |-> Hi,
     has_tags |-> TRUE, tags |-> <<>>, status |-> "active"]

\* the failures the file system can answer a migration with
Faults ==
    {NoFault, [kind |-> "write", kept |-> 5],
     [kind |-> "write", kept |-> Len(jsonl_text(<<LegacyPair[1]>>))]}
    \cup {[kind |-> k, kept |-> 0] : k \in {"read", "open", "write", "rename"}}

LegacyMetadata ==
    [id |-> ConvId, created_at |-> isoformat(0), updated_at |-> isoformat(0),
     participants |-> <<Host>>, message_count |-> 1, topic |-> Hi,
     has_tags |-> TRUE, tags |-> <<>>, status |-> "active"]

(***************************************************************************)
(* The adapters (src/src/mcp_llm_bridge/adapters.py).  An adapter is an    *)
(* external command; call_adapter spawns it, hands it the message and the  *)
(* history, and waits for it at most timeout_seconds.                      *)
(*                                                                         *)
(* A value that can be None is a sequence of no or one element: <<>> is    *)
(* None and <<x>> is x.                                                    *)
(***************************************************************************)
None == <<>>
Some(x) == <<x>>

\* Python's truth of an optional string: None and "" are false
truthy(opt) == opt # None /\ opt[1] # <<>>

\* sub in s
RECURSIVE find(_, _, _)
find(s, sub, i) ==
    IF i + Len(sub) - 1 > Len(s) THEN 0
    ELSE IF SubSeq(s, i, i + Len(sub) - 1) = sub THEN i
    ELSE find(s, sub, i + 1)

contains(s, sub) == find(s, sub, 1) # 0

\* s.replace(old, new), old not empty
RECURSIVE replace_from(_, _, _, _)
replace_at(s, old, new, i, hit) ==
    IF hit = 0 THEN SubSeq(s, i, Len(s))
    ELSE SubSeq(s, i, hit - 1) \o new \o replace_from(s, old, new, hit + Len(old))

replace_from(s, old, new, i) == replace_at(s, old, new, i, find(s, old, i))

replace(s, old, new) == replace_from(s, old, new, 1)

\* sep.join(parts)
RECURSIVE join(_, _)
join(sep, parts) ==
    IF parts = <<>> THEN <<>>
    ELSE IF Len(parts) = 1 THEN parts[1]
    ELSE parts[1] \o sep \o join(sep, Tail(parts))

\* f"{speaker}: {content}" with the newlines of content made spaces
history_line(msg) == msg.speaker \o <<":", " ">> \o replace(msg.content, <<NL>>, <<" ">>)

format_history(history) ==
    join(Bar, [i \in 1..Len(history) |-> history_line(history[i])])

\* config.get("timeout_seconds", 300)
timeout_of(config) ==
    IF "timeout_seconds" \in DOMAIN config THEN config.timeout_seconds
    ELSE DefaultTimeout

\* lines 131-136: every arg with the placeholder replaced by the message
processed_args(args, message) ==
    [i \in 1..Len(args) |-> replace(args[i], Placeholder, message)]

message_added(args) == \E i \in 1..Len(args) : contains(args[i], Placeholder)

\* the command line _call_bash_adapter spawns
full_command(config, message) ==
    IF config.input_method = "arg"
    THEN <<config.command>> \o processed_args(config.args, message)
             \o (IF ~message_added(config.args) /\ message # <<>>
                 THEN <<message>> ELSE <<>>)
    ELSE <<config.command>> \o config.args

\* the history takes the place of what stdin held
with_history_only(stdin, conversation_history, pass_history) ==
    IF pass_history /\ conversation_history # <<>>
    THEN Some(format_history(conversation_history))
    ELSE stdin

\* lines 150-157: the history goes before what stdin held, or takes its place
with_history(stdin, conversation_history, pass_history) ==
    IF pass_history /\ conversation_history # <<>>
    THEN IF truthy(stdin)
         THEN Some(format_history(conversation_history) \o Bar \o stdin[1])
         ELSE Some(format_history(conversation_history))
    ELSE stdin

\* what _call_bash_adapter gives the process on stdin, None for no stdin
stdin_input(config, message, conversation_history, pass_history) ==
    with_history(IF config.input_method = "arg" THEN None ELSE Some(message),
                 conversation_history, pass_history)

\* what the process is spawned with
spawn_input(config, message, conversation_history, pass_history) ==
    [command |-> full_command(config, message),
     stdin |-> IF truthy(stdin_input(config, message, conversation_history,
                                     pass_history))
               THEN stdin_input(config, message, conversation_history, pass_history)
               ELSE None]

TimedOutText == <<"C", "o", "m", "m", "a", "n", "d", " ", "t", "i", "m", "e", "d", " ",
      "o", "u", "t", " ", "a", "f", "t", "e", "r", " ">>
SecondsText == <<" ", "s", "e", "c", "o", "n", "d", "s">>
NotFoundText == <<"C", "o", "m", "m", "a", "n", "d", " ", "n", "o", "t", " ", "f", "o",
      "u", "n", "d", ":", " ">>

UnknownText == <<"U", "n", "k", "n", "o", "w", "n", " ", "a", "d", "a", "p", "t", "e", "r", ":", " ">>
UnsupportedText == <<"U", "n", "s", "u", "p", "p", "o", "r", "t", "e", "d", " ", "a", "d", "a", "p", "t", "e", "r", " ", "t", "y", "p", "e", ":", " ">>

\* str(e) of the ValueError call_adapter raises: lines 97 and 104
raised_text(name, how) ==
    IF how = "unknown" THEN UnknownText \o name
    ELSE UnsupportedText \o Adapters[name].type

\* lines 179-192: the process has exited before the timeout
exit_result(name, returncode, stdout, stderr, ms) ==
    [response |-> strip(stdout), adapter |-> name, exit_code |-> returncode,
     execution_time_ms |-> ms,
     error |-> IF returncode # 0
               THEN (IF stderr # <<>> THEN Some(strip(stderr)) ELSE None)
               ELSE None]

\* lines 194-203: asyncio.TimeoutError
timeout_result(name, timeout) ==
    [response |-> <<>>, adapter |-> name, exit_code |-> -1,
     execution_time_ms |-> timeout * 1000,
     error |-> Some(TimedOutText \o IntToStr(timeout) \o SecondsText)]

\* lines 205-214: FileNotFoundError
not_found_result(name, command) ==
    [response |-> <<>>, adapter |-> name, exit_code |-> -1,
     execution_time_ms |-> 0, error |-> Some(NotFoundText \o command)]

\* lines 216-225: any other exception e, text being str(e)
exception_result(name, text, ms) ==
    [response |-> <<>>, adapter |-> name, exit_code |-> -1,
     execution_time_ms |-> ms, error |-> Some(text)]

(***************************************************************************)
(* The context selector (src/src/mcp_llm_bridge/context_selector.py): the  *)
(* part of a conversation's messages an adapter is given as history.       *)
(***************************************************************************)
\* messages[-n:] for n > 0
last_n(messages, n) ==
    IF Len(messages) <= n THEN messages
    ELSE SubSeq(messages, Len(messages) - n + 1, Len(messages))

smart_select_at(messages, threshold) ==
    IF Len(messages) < threshold THEN messages
    ELSE <<messages[1]>> \o last_n(messages, SmartTail)

\* _smart_select with a threshold so low that the first message is taken twice
smart_select_early(messages) == smart_select_at(messages, SmartTail)

\* _smart_select with the threshold one message later
smart_select_late(messages) == smart_select_at(messages, SmartThreshold + 1)

smart_select(messages) == smart_select_at(messages, SmartThreshold)

recent_select_n(messages, n) ==
    IF Len(messages) > n THEN last_n(messages, n) ELSE messages

\* the recent mode keeping one message fewer
recent_select_short(messages) == recent_select_n(messages, RecentCount - 1)

recent_select(messages) == recent_select_n(messages, RecentCount)

minimal_select(messages) ==
    IF messages # <<>> THEN last_n(messages, 1) ELSE <<>>

RECURSIVE total_chars(_)
total_chars(messages) ==
    IF messages = <<>> THEN 0
    ELSE Len(messages[1].content) + Len(messages[1].speaker) + FormatChars
         + total_chars(Tail(messages))

estimate_tokens(messages) ==
    IF messages = <<>> THEN 0 ELSE total_chars(messages) \div CharsPerToken

\* a trim that keeps the last message alone, or nothing
trim_front_last(messages, max_tokens, i) ==
    IF estimate_tokens(last_n(messages, 1)) <= max_tokens
    THEN last_n(messages, 1) ELSE <<>>

\* for i in range(len(messages), 0, -1): the first messages[-i:] that fits
RECURSIVE trim_front(_, _, _)
trim_front(messages, max_tokens, i) ==
    IF i = 0 THEN <<>>
    ELSE IF estimate_tokens(last_n(messages, i)) <= max_tokens
    THEN last_n(messages, i)
    ELSE trim_front(messages, max_tokens, i - 1)

\* a smart trim that does not hold on to the first message
trim_smart_plain(messages, max_tokens, i) ==
    trim_front(messages, max_tokens, Len(messages))

\* lines 111-124: keep the first message and as many recent ones as fit
RECURSIVE trim_smart(_, _, _)
trim_smart(messages, max_tokens, i) ==
    IF i = 0 THEN trim_front(messages, max_tokens, Len(messages))
    ELSE IF estimate_tokens(<<messages[1]>> \o last_n(Tail(messages), i)) <= max_tokens
    THEN <<messages[1]>> \o last_n(Tail(messages), i)
    ELSE trim_smart(messages, max_tokens, i - 1)

apply_token_limit(messages, max_tokens, mode) ==
    IF messages = <<>> THEN messages
    ELSE IF estimate_tokens(messages) <= max_tokens THEN messages
    ELSE IF mode = "smart" /\ Len(messages) > 1
    THEN trim_smart(messages, max_tokens, Len(messages) - 1)
    ELSE trim_front(messages, max_tokens, Len(messages))

Modes == {"none", "minimal", "recent", "smart", "full"}

selected_by(messages, mode) ==
    CASE mode = "minimal" -> minimal_select(messages)
      [] mode = "recent" -> recent_select(messages)
      [] mode = "smart" -> smart_select(messages)
      [] OTHER -> messages

\* a select that takes a mode it does not know for full
select_any_mode(messages, mode, max_tokens) ==
    IF mode = "none" THEN [result |-> <<>>, raised |-> FALSE]
    ELSE IF max_tokens # None
    THEN [result |-> apply_token_limit(selected_by(messages, mode), max_tokens[1], mode),
          raised |-> FALSE]
    ELSE [result |-> selected_by(messages, mode), raised |-> FALSE]

\* select(messages, mode, max_tokens): the selection, or raised for ValueError
select(messages, mode, max_tokens) ==
    IF mode = "none" THEN [result |-> <<>>, raised |-> FALSE]
    ELSE IF mode \notin Modes THEN [result |-> <<>>, raised |-> TRUE]
    ELSE IF max_tokens # None
    THEN [result |-> apply_token_limit(selected_by(messages, mode), max_tokens[1], mode),
          raised |-> FALSE]
    ELSE [result |-> selected_by(messages, mode), raised |-> FALSE]

(***************************************************************************)
(* The state machine: one store instance, each operation one step.         *)
(* The clock belongs to the environment: an operation reads it.            *)
(***************************************************************************)
Writers == {"w1", "w2"}
Idle == [pc |-> "idle", cid |-> <<>>, speaker |-> <<>>, content |-> <<>>,
         base |-> <<>>, message |-> NoMessage, todo |-> <<>>]

NoRet == [op |-> "none", cid |-> <<>>, speaker |-> <<>>, content |-> <<>>,
          before |-> 0, out |-> <<>>, raised |-> FALSE, listed |-> 0,
          start |-> <<>>, end |-> <<>>, limit |-> 0, sort_by |-> "", order |-> "",
          count |-> 0]

\* lines and legacy messages the store holds
RECURSIVE SumOver(_, _)
SumOver(f, ids) ==
    IF ids = {} THEN 0
    ELSE LET x == CHOOSE y \in ids : TRUE IN Len(f[x]) + SumOver(f, ids \ {x})

TotalLines(fs) ==
    SumOver([x \in DOMAIN fs.jsonl |-> file_lines(fs.jsonl[x])], DOMAIN fs.jsonl)
        + SumOver(fs.legacy, DOMAIN fs.legacy)

\* the ids a client holds: the ones create_conversation returned or that an
\* earlier version left, and ConvId whether or not it was created
KnownIds == DOMAIN jsonl \cup DOMAIN legacy \cup {ConvId}

Install(fs) ==
    /\ jsonl' = fs.jsonl
    /\ meta' = fs.meta
    /\ legacy' = fs.legacy
    /\ bak' = fs.bak
    /\ synced' = fs.synced

\* an operation returns: r is the store after it and its result, call is
\* the record of the call
Return(r, call) ==
    /\ Install(r.fs)
    /\ ret' = [call EXCEPT !.out = r.result,
                           !.raised = IF "raised" \in DOMAIN r THEN r.raised ELSE FALSE]

\* the same for an operation that returns one record
ReturnOne(r, call) ==
    /\ Install(r.fs)
    /\ ret' = [call EXCEPT !.out = <<r.result>>]

\* a selector that has not been called
NoSel ==
    [messages |-> <<>>, mode |-> "", max_tokens |-> None, result |-> <<>>,
     raised |-> FALSE, called |-> FALSE]

Slots == 1..MaxSlots

NoInput == [command |-> <<>>, stdin |-> None]
NoResult ==
    [response |-> <<>>, adapter |-> <<>>, exit_code |-> 0,
     execution_time_ms |-> 0, error |-> None]

\* an adapter call: st is where call_adapter stands ("idle", "running" while
\* it awaits the process, "returned", "raised"), input is what the process
\* was spawned with, alive is whether the process runs, exited is what it
\* left when it ended by itself while it was awaited, how is the return or
\* raise statement that ended the call, logged the number of messages the
\* conversation held when the call was made
NoCall ==
    [st |-> "idle", name |-> <<>>, input |-> NoInput, timeout |-> 0,
     elapsed |-> 0, alive |-> FALSE, exited |-> None, result |-> NoResult,
     how |-> "", logged |-> 0]

\* a test_adapter call, with the lookup process it spawned; beat changes as
\* the process works
NoProbe ==
    [st |-> "idle", name |-> <<>>, alive |-> FALSE, exited |-> None,
     out |-> FALSE, beat |-> FALSE]

\* a call_llm or call_llm_parallel request: names are the adapters it asks
\* for, log the messages it read, history the selection it made of them,
\* slots the results of its adapters so far
NoSlot ==
    [adapter |-> <<>>, response |-> <<>>, error |-> None, success |-> FALSE,
     settled |-> FALSE]
NoTotals == [total_adapters |-> 0, successful |-> 0, failed |-> 0, results |-> <<>>]
NoSrv ==
    [tool |-> "", st |-> "idle", cid |-> <<>>, names |-> <<>>, message |-> <<>>,
     context_mode |-> "", pass_history |-> FALSE, log |-> <<>>, history |-> <<>>,
     slots |-> [i \in Slots |-> NoSlot], response |-> <<>>, totals |-> NoTotals]

BridgeIdle ==
    /\ calls = [i \in Slots |-> NoCall]
    /\ srv = NoSrv
    /\ probe = NoProbe

Init ==
    /\ BridgeIdle
    /\ sel = NoSel
    /\ fault = NoFault
    /\ jsonl = NoFiles
    /\ bak = NoFiles
    /\ \/ legacy = NoFiles /\ meta = NoFiles
       \/ legacy = Put(NoFiles, ConvId, LegacyMessages) /\ meta = NoFiles
       \/ legacy = Put(NoFiles, ConvId, LegacyMessages)
          /\ meta = Put(NoFiles, ConvId, LegacyMetadata)
    /\ synced = NoFiles
    /\ now = 1
    /\ ret = NoRet
    /\ proc = [w \in Writers |-> Idle]
    /\ acked = {}

CreateConversation(cid, in, random_suffix, ord) ==
    /\ in.im # <<>> => TotalLines(FS) < MaxMsgs
    /\ Return(create_conversation(FS, cid, in.im, in.tp, in.hn, now, random_suffix, ord),
              [NoRet EXCEPT !.op = "create", !.cid = cid, !.content = in.im,
                            !.speaker = in.hn])
    /\ Cardinality(DOMAIN jsonl' \cup DOMAIN legacy') <= MaxConvs
    /\ UNCHANGED <<now, proc, acked, bridge>>

AppendMessage(cid, speaker, content, ord) ==
    /\ TotalLines(FS) < MaxMsgs
    /\ Install(append_message(FS, cid, speaker, content, now, ord))
    /\ ret' = [NoRet EXCEPT !.op = "append", !.cid = cid, !.speaker = speaker,
                            !.content = content,
                            !.before = count_messages(FS, cid)]
    /\ Cardinality(DOMAIN jsonl' \cup DOMAIN legacy') <= MaxConvs
    /\ UNCHANGED <<now, proc, acked, bridge>>

ReadMessages(cid) ==
    /\ Return(read_messages(FS, cid), [NoRet EXCEPT !.op = "read", !.cid = cid])
    /\ UNCHANGED <<now, proc, acked, bridge>>

GetMetadata(cid, ord) ==
    /\ ReturnOne(get_metadata(FS, cid, now, ord),
                 [NoRet EXCEPT !.op = "get_metadata", !.cid = cid])
    /\ UNCHANGED <<now, proc, acked, bridge>>

Listed(r) ==
    /\ Install(r.fs)
    /\ ret' = [NoRet EXCEPT !.op = "list", !.listed = r.n]

ListConversations(ord) ==
    /\ Listed(list_conversations(FS, now, ord))
    /\ UNCHANGED <<now, proc, acked, bridge>>

\* a client that names its conversation ConvId or lets the store name it, and
\* then uses the ids it holds
Next ==
    \/ \E cid \in {ConvId, NoId}, in \in CreateInputs, ord \in CreateOrders :
          \E rs \in RandomSuffixes(cid) : CreateConversation(cid, in, rs, ord)
    \/ \E cid \in KnownIds, in \in AppendInputs :
          \E ord \in Orders(meta, {cid}) : AppendMessage(cid, in.sp, in.co, ord)
    \/ \E cid \in KnownIds : ReadMessages(cid)
    \/ \E cid \in KnownIds : \E ord \in Orders(meta, {cid}) : GetMetadata(cid, ord)
    \/ \E ord \in Orders(meta, DOMAIN jsonl \cup DOMAIN legacy) :
          ListConversations(ord)

Spec == Init /\ [][Next]_vars

\* the messages of a conversation, as read_messages returns them
Log(fs, cid) == read_messages(fs, cid).result

(***************************************************************************)
(* C1.  Round trip: when append_message(id, speaker, content) has returned *)
(* on a conversation that held n messages, read_messages(id) returns n + 1 *)
(* messages, and the last has turn n + 1 and the speaker and content given.*)
(***************************************************************************)
C1_RoundTrip ==
    ret.op = "append" =>
        /\ Len(Log(FS, ret.cid)) = ret.before + 1
        /\ Last(Log(FS, ret.cid)).turn = ret.before + 1
        /\ Last(Log(FS, ret.cid)).speaker = ret.speaker
        /\ Last(Log(FS, ret.cid)).content = ret.content

\* the long content, with its newline, quote and backslash, appended second
C1_Witness ==
    /\ ret.op = "append"
    /\ ret.before = 1
    /\ ret.content = Long
    /\ Len(Log(FS, ret.cid)) = 2

(***************************************************************************)
(* C2.  Turn invariant: with one writer, the messages read_messages        *)
(* returns for a conversation carry the turns 1, 2, ..., n in log order.   *)
(***************************************************************************)
C2_TurnInvariant ==
    \A cid \in KnownIds :
        \A i \in 1..Len(Log(FS, cid)) : Log(FS, cid)[i].turn = i

\* a log whose first message create_conversation wrote and whose second
\* message append_message wrote
C2_Witness ==
    \E cid \in DOMAIN jsonl :
        /\ Len(Log(FS, cid)) = 2
        /\ Log(FS, cid)[1].speaker \in {Host, HostM}
        /\ Log(FS, cid)[2].speaker = Bot
        /\ cid \notin DOMAIN bak

(***************************************************************************)
(* C4.  The log is append-only: no operation of the store changes,         *)
(* reorders or removes what a conversation file or a conversation's log    *)
(* already holds, and append_message adds exactly one record, at the end   *)
(* of the log of its conversation and to no other log.                     *)
(***************************************************************************)
C4_Step ==
    /\ \A x \in DOMAIN jsonl : x \in DOMAIN jsonl' /\ IsPrefix(jsonl[x], jsonl'[x])
    /\ \A cid \in KnownIds : IsPrefix(Log(FS, cid), Log(FS', cid))
    /\ ret'.op = "append" =>
           /\ Len(Log(FS', ret'.cid)) = Len(Log(FS, ret'.cid)) + 1
           /\ \A cid \in KnownIds :
                  sanitize_id(cid) # sanitize_id(ret'.cid)
                      => Log(FS', cid) = Log(FS, cid)

C4_AppendOnly == [][C4_Step]_vars

\* an append to a log that held a message, next to another conversation
C4_Witness ==
    /\ ret.op = "append"
    /\ ret.before >= 1
    /\ ret.speaker = Host
    /\ Cardinality(DOMAIN jsonl) = 2

(***************************************************************************)
(* C9.  Cache coherence: with one writer, for every conversation           *)
(* get_metadata reports a message_count equal to the number of messages    *)
(* read_messages returns, and participants that are duplicate-free and, as *)
(* a set, the speakers occurring in the log.                               *)
(***************************************************************************)
C9_CacheCoherence ==
    \A cid \in KnownIds, ord \in SpeakerOrders :
        /\ get_metadata(FS, cid, now, ord).result.message_count = Len(Log(FS, cid))
        /\ Range(get_metadata(FS, cid, now, ord).result.participants)
               = speakers_of(Log(FS, cid))
        /\ Cardinality(Range(get_metadata(FS, cid, now, ord).result.participants))
               = Len(get_metadata(FS, cid, now, ord).result.participants)

\* a cached count of two and two cached participants after an append
C9_Witness ==
    \E x \in DOMAIN meta :
        /\ ret.op = "append"
        /\ sanitize_id(ret.cid) = x
        /\ meta[x].message_count = 2
        /\ Len(meta[x].participants) = 2

(***************************************************************************)
(* C10.  The cached metadata is recomputable from the log alone: with the  *)
(* sidecar removed, get_metadata derives metadata equal to the cached copy *)
(* in message_count, in participants as a set, and in topic.               *)
(***************************************************************************)
Derived(x, ord) ==
    get_metadata([FS EXCEPT !.meta = Del(meta, x)], x, now, ord).result

C10_Recomputable ==
    \A x \in DOMAIN meta, ord \in SpeakerOrders :
        /\ Derived(x, ord).message_count = meta[x].message_count
        /\ Range(Derived(x, ord).participants) = Range(meta[x].participants)
        /\ Derived(x, ord).topic = meta[x].topic

(***************************************************************************)
(* append_message step by step, for writers that run at the same time as   *)
(* each other, as a reader, or as a crash.  A writer w is a process with   *)
(* its own store instance on the shared directory; proc[w] holds its       *)
(* position and locals:                                                    *)
(*   idle    not inside append_message                                     *)
(*   write   it has migrated, counted and opened the file, and is writing  *)
(*           the characters todo of its record                             *)
(*   update  it has flushed and fsynced, and is about to update metadata   *)
(***************************************************************************)
SyncedLen(x) == IF x \in DOMAIN synced THEN synced[x] ELSE 0

Busy == {w \in Writers : proc[w].pc # "idle"}

\* lines 142-158: migrate, count, build the message, open the file to append
begin_counted(r, w, conversation_id, speaker, content) ==
    /\ Install(write_append(r.fs, get_conversation_path(conversation_id), <<>>))
    /\ proc' = [proc EXCEPT ![w] =
                    [pc |-> "write", cid |-> conversation_id, speaker |-> speaker,
                     content |-> content, base |-> r.result,
                     message |-> new_message(Len(r.result), speaker, content, now),
                     todo |-> record_text(new_message(Len(r.result), speaker,
                                                      content, now))]]

AppendBegin(w, conversation_id, speaker, content) ==
    /\ proc[w].pc = "idle"
    /\ Cardinality(acked) + Cardinality(Busy) < MaxMsgs
    /\ begin_counted(read_messages(migrate_if_needed(FS, conversation_id),
                                   conversation_id),
                     w, conversation_id, speaker, content)
    /\ ret' = [NoRet EXCEPT !.op = "begin", !.cid = conversation_id]
    /\ UNCHANGED <<now, acked, bridge>>

\* how much of the record one write can carry to the file: all that is left,
\* or, for a first write that the writer's buffer cuts short, a part of it
ChunkSizes(p) ==
    IF p.todo = record_text(p.message) THEN {Len(p.todo) \div 2, Len(p.todo)}
    ELSE {Len(p.todo)}

\* lines 159-161: characters of the record reach the file
AppendWrite(w, k) ==
    /\ proc[w].pc = "write"
    /\ proc[w].todo # <<>>
    /\ Install(write_append(FS, get_conversation_path(proc[w].cid),
                            SubSeq(proc[w].todo, 1, k)))
    /\ proc' = [proc EXCEPT ![w].todo = SubSeq(proc[w].todo, k + 1, Len(proc[w].todo))]
    /\ ret' = [NoRet EXCEPT !.op = "write", !.cid = proc[w].cid]
    /\ UNCHANGED <<now, acked, bridge>>

\* lines 162-163: f.flush() and os.fsync(f.fileno())
AppendSync(w) ==
    /\ proc[w].pc = "write"
    /\ proc[w].todo = <<>>
    /\ Install(fsync(FS, get_conversation_path(proc[w].cid)))
    /\ proc' = [proc EXCEPT ![w].pc = "update"]
    /\ ret' = [NoRet EXCEPT !.op = "fsync", !.cid = proc[w].cid]
    /\ UNCHANGED <<now, acked, bridge>>

\* line 166 and the return
AppendReturn(w, ord) ==
    /\ proc[w].pc = "update"
    /\ Install(update_metadata_on_append(FS, proc[w].cid, proc[w].speaker, now, ord))
    /\ acked' = acked \cup {[w |-> w, cid |-> proc[w].cid, message |-> proc[w].message]}
    /\ proc' = [proc EXCEPT ![w] = Idle]
    /\ ret' = [NoRet EXCEPT !.op = "append", !.cid = proc[w].cid,
                            !.speaker = proc[w].speaker,
                            !.content = proc[w].content,
                            !.before = Len(proc[w].base)]
    /\ UNCHANGED <<now, bridge>>

\* what a crash leaves of a file whose first durable characters are known: the
\* characters written after the last fsync are lost, kept, or kept in part
survive(text, durable, kept) ==
    SubSeq(text, 1, IF kept = "none" THEN durable
                    ELSE IF kept = "all" THEN Len(text)
                    ELSE durable + ((Len(text) - durable) \div 2))

\* the machine stops and restarts: every writer is gone, and the files hold
\* what reached the disk
Crash(kept) ==
    /\ now < MaxNow
    /\ now' = now + 1
    /\ jsonl' = [x \in DOMAIN jsonl |-> survive(jsonl[x], SyncedLen(x), kept)]
    /\ synced' = [x \in DOMAIN jsonl |-> Len(survive(jsonl[x], SyncedLen(x), kept))]
    /\ proc' = [w \in Writers |-> Idle]
    /\ ret' = [NoRet EXCEPT !.op = "crash"]
    /\ UNCHANGED <<meta, legacy, bak, acked, bridge>>

\* two writers and a reader on ConvId
NextWriters ==
    \/ \E w \in Writers, in \in AppendInputs : AppendBegin(w, ConvId, in.sp, in.co)
    \/ \E w \in Writers : \E k \in ChunkSizes(proc[w]) : AppendWrite(w, k)
    \/ \E w \in Writers : AppendSync(w)
    \/ \E w \in Writers : \E ord \in Orders(meta, {ConvId}) : AppendReturn(w, ord)
    \/ ReadMessages(ConvId)

SpecWriters == Init /\ [][NextWriters]_vars

(***************************************************************************)
(* C3.  Appends of writers that overlap are serialized: the log never      *)
(* holds two records with the same turn, and once the writers are done no  *)
(* line of the file is a merge of records, every line being a record.      *)
(***************************************************************************)
all_lines_parse(text) ==
    \A i \in 1..Len(file_lines(text)) :
        \/ strip(file_lines(text)[i]) = <<>>
        \/ json_loads(strip(file_lines(text)[i])).ok

C3_Serialized ==
    /\ \A i, j \in 1..Len(Log(FS, ConvId)) :
           i < j => Log(FS, ConvId)[i].turn # Log(FS, ConvId)[j].turn
    /\ (Busy = {} /\ ConvId \in DOMAIN jsonl) => all_lines_parse(jsonl[ConvId])

\* one writer and a reader on ConvId
NextReader ==
    \/ \E in \in AppendInputs : AppendBegin("w1", ConvId, in.sp, in.co)
    \/ \E k \in ChunkSizes(proc["w1"]) : AppendWrite("w1", k)
    \/ AppendSync("w1")
    \/ \E ord \in Orders(meta, {ConvId}) : AppendReturn("w1", ord)
    \/ ReadMessages(ConvId)

SpecReader == Init /\ [][NextReader]_vars

NextCrash ==
    \/ \E in \in AppendInputs : AppendBegin("w1", ConvId, in.sp, in.co)
    \/ \E k \in ChunkSizes(proc["w1"]) : AppendWrite("w1", k)
    \/ AppendSync("w1")
    \/ \E ord \in Orders(meta, {ConvId}) : AppendReturn("w1", ord)
    \/ ReadMessages(ConvId)
    \/ \E kept \in {"none", "part", "all"} : Crash(kept)

SpecCrash == Init /\ [][NextCrash]_vars

(***************************************************************************)
(* C5.  Durability: once append_message has returned, read_messages        *)
(* returns the record it appended, whatever crashes and restarts there are.*)
(***************************************************************************)
C5_Durable ==
    \A a \in acked :
        \E i \in 1..Len(Log(FS, a.cid)) : Log(FS, a.cid)[i] = a.message

(***************************************************************************)
(* The store called with identifiers that fail sanitization, next to one   *)
(* that passes.                                                            *)
(***************************************************************************)
BoundaryIds == InvalidIds \cup {ConvId}

NextBoundary ==
    \/ \E cid \in BoundaryIds, in \in CreateInputs, ord \in CreateOrders :
          \E rs \in RandomSuffixes(cid) : CreateConversation(cid, in, rs, ord)
    \/ \E cid \in BoundaryIds, in \in AppendInputs :
          \E ord \in Orders(meta, {cid}) : AppendMessage(cid, in.sp, in.co, ord)
    \/ \E cid \in BoundaryIds : ReadMessages(cid)
    \/ \E cid \in BoundaryIds : \E ord \in Orders(meta, {cid}) : GetMetadata(cid, ord)

SpecBoundary == Init /\ [][NextBoundary]_vars

(***************************************************************************)
(* C7.  create_conversation with an identifier that contains "/", "\" or   *)
(* "..", or of which sanitization keeps nothing, returns the empty string  *)
(* and creates no file; create_conversation("conv_1"), when it returns,    *)
(* returns "conv_1".                                                       *)
(***************************************************************************)
C7_Step ==
    /\ (ret'.op = "create" /\ ret'.cid \in InvalidIds) =>
           /\ ret'.out = <<>>
           /\ ~ret'.raised
           /\ UNCHANGED <<jsonl, meta, legacy, bak>>
    /\ (ret'.op = "create" /\ ret'.cid = ConvId /\ ~ret'.raised) =>
           ret'.out = ConvId

C8_Step ==
    (ret'.op \in {"append", "read", "get_metadata"} /\ ret'.cid \in InvalidIds) =>
        UNCHANGED <<jsonl, meta, legacy, bak>>

C8_HardBoundary == [][C8_Step]_vars

(***************************************************************************)
(* The selector on its own: a message list is given, select is called on   *)
(* it with any mode and limit.                                             *)
(***************************************************************************)
\* n messages with turns 1..n, the k-th a long one (none for k = 0)
History(n, k) ==
    [i \in 1..n |->
        [turn |-> i, speaker |-> IF i % 2 = 1 THEN Host ELSE Bot,
         content |-> IF i = k THEN Long ELSE Hi, timestamp |-> isoformat(1)]]

Histories == {History(n, k) : n \in 0..MaxHistory, k \in 0..MaxHistory}

\* max_tokens: none, or a limit
TokenLimits == {None, Some(-1), Some(0), Some(10), Some(30)}

InitSelect ==
    /\ BridgeIdle
    /\ sel \in {[NoSel EXCEPT !.messages = M] : M \in Histories}
    /\ fault = NoFault
    /\ jsonl = NoFiles /\ meta = NoFiles /\ legacy = NoFiles /\ bak = NoFiles
    /\ synced = NoFiles
    /\ now = 1
    /\ ret = NoRet
    /\ proc = [w \in Writers |-> Idle]
    /\ acked = {}

Select(mode, max_tokens) ==
    /\ sel' = [messages |-> sel.messages, mode |-> mode, max_tokens |-> max_tokens,
               result |-> select(sel.messages, mode, max_tokens).result,
               raised |-> select(sel.messages, mode, max_tokens).raised,
               called |-> TRUE]
    /\ UNCHANGED <<jsonl, meta, legacy, bak, synced, now, ret, proc, acked,
                   calls, srv, probe, fault>>

\* mode strings that are no mode: the names are matched as they are written
OtherModes == {"other", "Full"}

NextSelect == \E mode \in Modes \cup OtherModes, max_tokens \in TokenLimits :
                  Select(mode, max_tokens)

SpecSelect == InitSelect /\ [][NextSelect]_vars

\* select was called with this mode and no max_tokens
Selected(mode) == sel.called /\ sel.mode = mode /\ sel.max_tokens = None

(***************************************************************************)
(* C19.  select(M, "smart") with no max_tokens returns all of M when M has *)
(* fewer than 10 messages and otherwise the first message of M followed by *)
(* the last 5: 9 messages for 9, 6 messages for 10.                        *)
(***************************************************************************)
C19_Smart ==
    Selected("smart") =>
        /\ ~sel.raised
        /\ Len(sel.messages) < 10 => sel.result = sel.messages
        /\ Len(sel.messages) >= 10 =>
              /\ Len(sel.result) = 6
              /\ sel.result[1] = sel.messages[1]
              /\ \A i \in 1..5 :
                    sel.result[1 + i] = sel.messages[Len(sel.messages) - 5 + i]
        /\ Len(sel.messages) = 9 => Len(sel.result) = 9

C19_Witness ==
    /\ Selected("smart")
    /\ Len(sel.messages) = 10
    /\ Len(sel.result) = 6
    /\ sel.result[2].turn = 6

(***************************************************************************)
(* C20.  With no max_tokens, "none" selects nothing, "minimal" the last    *)
(* message (nothing of an empty list), "recent" all of M when M has at     *)
(* most 10 messages and otherwise its last 10, and "full" M as it is.      *)
(***************************************************************************)
C20_Modes ==
    /\ Selected("none") => ~sel.raised /\ sel.result = <<>>
    /\ Selected("minimal") =>
          /\ ~sel.raised
          /\ sel.messages = <<>> => sel.result = <<>>
          /\ sel.messages # <<>> =>
                sel.result = <<sel.messages[Len(sel.messages)]>>
    /\ Selected("recent") =>
          /\ ~sel.raised
          /\ Len(sel.messages) <= 10 => sel.result = sel.messages
          /\ Len(sel.messages) > 10 =>
                /\ Len(sel.result) = 10
                /\ \A i \in 1..10 :
                      sel.result[i] = sel.messages[Len(sel.messages) - 10 + i]
    /\ Selected("full") => ~sel.raised /\ sel.result = sel.messages

C20_Witness ==
    /\ Selected("recent")
    /\ Len(sel.messages) = 11
    /\ Len(sel.result) = 10
    /\ sel.result[1].turn = 2

\* select was called with this mode and a max_tokens
Limited(mode) == sel.called /\ sel.mode = mode /\ sel.max_tokens # None

(***************************************************************************)
(* C21.  For every message list M, every mode and every max_tokens, given  *)
(* or not, select returns a subsequence of M: messages of M in the order   *)
(* they have in M, none of them twice.  (Message i of M carries turn i, so *)
(* the turns of the result say where in M its messages come from.)         *)
(***************************************************************************)
C21_Subsequence ==
    sel.called /\ sel.mode \in Modes =>
        /\ ~sel.raised
        /\ \A j \in 1..Len(sel.result) :
              /\ sel.result[j].turn \in 1..Len(sel.messages)
              /\ sel.result[j] = sel.messages[sel.result[j].turn]
        /\ \A j, k \in 1..Len(sel.result) :
              j < k => sel.result[j].turn < sel.result[k].turn

\* a trimmed smart selection of a long list: its first message and a gap
C21_Witness ==
    /\ Limited("smart")
    /\ Len(sel.messages) = 11
    /\ Len(sel.result) = 3
    /\ sel.result[1].turn = 1
    /\ sel.result[2].turn = 10

\* floor((sum of len(content) + len(speaker) + 4) / 4)
RECURSIVE Chars(_)
Chars(messages) ==
    IF messages = <<>> THEN 0
    ELSE Len(messages[1].content) + Len(messages[1].speaker) + 4
         + Chars(Tail(messages))
Estimate(messages) == Chars(messages) \div 4

\* the last k messages
Suffix(messages, k) == SubSeq(messages, Len(messages) - k + 1, Len(messages))

\* the lengths of the suffixes that fit
Fitting(messages, max_tokens) ==
    {k \in 0..Len(messages) : Estimate(Suffix(messages, k)) <= max_tokens}

\* the longest of them, the empty suffix when there is none
Longest(lens) ==
    IF lens = {} THEN 0 ELSE CHOOSE k \in lens : \A l \in lens : l <= k

\* the selection with no max_tokens
Untrimmed == select(sel.messages, sel.mode, None).result

(***************************************************************************)
(* C22.  For the modes other than smart and a max_tokens of 0 or more,     *)
(* select returns the longest suffix of the untrimmed selection whose      *)
(* estimate, floor((sum of len(content) + len(speaker) + 4) / 4), is at    *)
(* most max_tokens: the whole selection if it fits, the empty list if the  *)
(* last message alone does not; what it returns never exceeds max_tokens.  *)
(***************************************************************************)
C22_Budget ==
    \A mode \in Modes \ {"smart"} :
        Limited(mode) /\ sel.max_tokens[1] >= 0 =>
            /\ ~sel.raised
            /\ sel.result = Suffix(Untrimmed,
                                   Longest(Fitting(Untrimmed, sel.max_tokens[1])))
            /\ Estimate(sel.result) <= sel.max_tokens[1]

\* the recent selection of 11 messages, the 8th long, cut to the last three
C22_Witness ==
    /\ Limited("recent")
    /\ sel.max_tokens = Some(10)
    /\ Len(sel.messages) = 11
    /\ Len(Untrimmed) = 10
    /\ Len(sel.result) = 3
    /\ sel.result[1].turn = 9

\* the lengths of the tails that fit behind the first message
FittingBehindFirst(messages, max_tokens) ==
    {k \in 1..(Len(messages) - 1) :
        Estimate(<<messages[1]>> \o Suffix(Tail(messages), k)) <= max_tokens}

(***************************************************************************)
(* C23.  In smart mode, when the untrimmed selection exceeds max_tokens,   *)
(* select returns its first message followed by the longest tail of the    *)
(* messages after it that fits; only when the first message with the last  *)
(* message alone does not fit, it returns the longest suffix of the        *)
(* selection that fits, without the first message, and the empty list when *)
(* no suffix fits.                                                         *)
(***************************************************************************)
C23_SmartBudget ==
    Limited("smart") /\ Estimate(Untrimmed) > sel.max_tokens[1] =>
        /\ ~sel.raised
        /\ FittingBehindFirst(Untrimmed, sel.max_tokens[1]) # {} =>
              sel.result =
                  <<Untrimmed[1]>>
                  \o Suffix(Tail(Untrimmed),
                            Longest(FittingBehindFirst(Untrimmed, sel.max_tokens[1])))
        /\ FittingBehindFirst(Untrimmed, sel.max_tokens[1]) = {} =>
              /\ sel.result = Suffix(Untrimmed,
                                     Longest(Fitting(Untrimmed, sel.max_tokens[1])))
              /\ Untrimmed # <<>> => Len(sel.result) < Len(Untrimmed)

\* the first message is long: it cannot stay, the last four messages do
C23_Witness ==
    /\ Limited("smart")
    /\ sel.max_tokens = Some(10)
    /\ Len(sel.messages) = 10
    /\ sel.messages[1].content = Long
    /\ Len(sel.result) = 4
    /\ sel.result[1].turn = 7

(***************************************************************************)
(* C24.  select with a mode string other than none, minimal, recent, smart *)
(* and full raises, for every message list, the empty one too, and every   *)
(* max_tokens, and returns no selection.                                   *)
(***************************************************************************)
C24_UnknownMode ==
    sel.called /\ sel.mode \notin {"none", "minimal", "recent", "smart", "full"} =>
        sel.raised /\ sel.result = <<>>

C24_Witness ==
    /\ sel.called
    /\ sel.mode = "Full"
    /\ sel.messages # <<>>
    /\ sel.max_tokens = Some(30)
    /\ sel.raised

(***************************************************************************)
(* The adapter manager step by step: call_adapter spawns the process and   *)
(* awaits it under the timeout; test_adapter spawns the executable lookup  *)
(* and awaits it.  The process is the environment's: it runs, and it ends  *)
(* when and how it likes.                                                  *)
(***************************************************************************)
\* what create_subprocess_exec can do with a command
Spawns(command) ==
    IF command \notin Installed THEN {[kind |-> "not_found", text |-> <<>>]}
    ELSE {[kind |-> "started", text |-> <<>>]}
         \cup {[kind |-> "failed", text |-> t] : t \in ExceptionTexts}

\* _call_bash_adapter up to its await of communicate
spawned(name, config, input, ev) ==
    CASE ev.kind = "not_found" ->
            [NoCall EXCEPT !.st = "returned", !.name = name, !.input = input,
                           !.timeout = timeout_of(config), !.how = "not_found",
                           !.result = not_found_result(name, config.command)]
      [] ev.kind = "failed" ->
            [NoCall EXCEPT !.st = "returned", !.name = name, !.input = input,
                           !.timeout = timeout_of(config), !.how = "exception",
                           !.result = exception_result(name, ev.text, 0)]
      [] OTHER ->
            [NoCall EXCEPT !.st = "running", !.name = name, !.input = input,
                           !.timeout = timeout_of(config), !.alive = TRUE]

\* call_adapter up to its first await
call_adapter(name, message, conversation_history, pass_history, ev) ==
    IF name \notin DOMAIN Adapters
    THEN [NoCall EXCEPT !.st = "raised", !.name = name, !.how = "unknown"]
    ELSE IF Adapters[name].type # Bash
    THEN [NoCall EXCEPT !.st = "raised", !.name = name, !.how = "unsupported"]
    ELSE spawned(name, Adapters[name],
                 spawn_input(Adapters[name], message, conversation_history,
                             pass_history), ev)

\* the spawn events an adapter name can meet
SpawnsOf(name) ==
    IF name \in DOMAIN Adapters /\ Adapters[name].type = Bash
    THEN Spawns(Adapters[name].command)
    ELSE {[kind |-> "started", text |-> <<>>]}

\* the instants at which the clock is read: the first seconds and deadlines
Instants(timeout) == (0..TimeoutSeconds) \cup {timeout}

Frame ==
    UNCHANGED <<jsonl, meta, legacy, bak, synced, now, ret, proc, acked, srv, sel, fault>>

Invoke(i, name, message, conversation_history, pass_history, ev) ==
    /\ calls[i].st # "running"
    /\ calls' = [calls EXCEPT ![i] = call_adapter(name, message, conversation_history,
                                                   pass_history, ev)]
    /\ UNCHANGED probe /\ Frame

\* the adapter process ends by itself
ProcExit(i, x) ==
    /\ calls[i].alive
    /\ calls' = [calls EXCEPT ![i].alive = FALSE,
                    ![i].exited = IF calls[i].st = "running" THEN Some(x) ELSE None]
    /\ UNCHANGED probe /\ Frame

\* time passes while communicate is awaited
Tick(i, t) ==
    /\ calls[i].st = "running"
    /\ calls[i].exited = None
    /\ t \in Instants(calls[i].timeout)
    /\ calls[i].elapsed < t /\ t <= calls[i].timeout
    /\ calls' = [calls EXCEPT ![i].elapsed = t]
    /\ UNCHANGED probe /\ Frame

\* communicate returns: lines 179-192
Complete(i) ==
    /\ calls[i].st = "running"
    /\ calls[i].exited # None
    /\ calls' = [calls EXCEPT ![i].st = "returned", ![i].how = "exit",
                    ![i].result = exit_result(calls[i].name,
                                              calls[i].exited[1].returncode,
                                              calls[i].exited[1].stdout,
                                              calls[i].exited[1].stderr,
                                              calls[i].elapsed * 1000)]
    /\ UNCHANGED probe /\ Frame

\* wait_for gives up: lines 194-203, which return and touch the process no more
Timeout(i) ==
    /\ calls[i].st = "running"
    /\ calls[i].elapsed = calls[i].timeout
    /\ calls' = [calls EXCEPT ![i].st = "returned", ![i].how = "timeout",
                    ![i].result = timeout_result(calls[i].name, calls[i].timeout)]
    /\ UNCHANGED probe /\ Frame

\* the output of the ended process does not decode: lines 216-225
Fail(i, text) ==
    /\ calls[i].st = "running"
    /\ calls[i].exited # None
    /\ text # <<>>
    /\ calls' = [calls EXCEPT ![i].st = "returned", ![i].how = "exception",
                    ![i].result = exception_result(calls[i].name, text,
                                                   calls[i].elapsed * 1000)]
    /\ UNCHANGED probe /\ Frame

\* test_adapter up to its await of the lookup process
test_adapter(name, ev) ==
    IF name \notin DOMAIN Adapters
    THEN [NoProbe EXCEPT !.st = "raised", !.name = name]
    ELSE IF Adapters[name].type # Bash
    THEN [NoProbe EXCEPT !.st = "raised", !.name = name]
    ELSE IF ev.kind = "failed"
    THEN [NoProbe EXCEPT !.st = "returned", !.name = name, !.out = FALSE]
    ELSE [NoProbe EXCEPT !.st = "waiting", !.name = name, !.alive = TRUE]

\* which, or where, is installed: spawning it starts it or fails otherwise
LookupSpawns ==
    {[kind |-> "started", text |-> <<>>]}
    \cup {[kind |-> "failed", text |-> t] : t \in ExceptionTexts}

ProbeStart(name, ev) ==
    /\ probe.st # "waiting"
    /\ probe' = test_adapter(name, ev)
    /\ UNCHANGED calls /\ Frame

\* the lookup process works on
ProbeRun ==
    /\ probe.alive
    /\ probe' = [probe EXCEPT !.beat = ~probe.beat]
    /\ UNCHANGED calls /\ Frame

\* the lookup process ends: status 0 when it found the command
ProbeExit ==
    /\ probe.alive
    /\ probe' = [probe EXCEPT !.alive = FALSE,
                    !.exited = Some(IF Adapters[probe.name].command \in Installed
                                    THEN 0 ELSE 1)]
    /\ UNCHANGED calls /\ Frame

\* result.wait() returns: line 277
ProbeReturn ==
    /\ probe.st = "waiting"
    /\ probe.exited # None
    /\ probe' = [probe EXCEPT !.st = "returned", !.out = (probe.exited[1] = 0)]
    /\ UNCHANGED calls /\ Frame

\* the arguments of a call_adapter
Messages == {<<>>, Hi}
SelectedHistories == {<<>>, LegacyMessages}

InvokeAny ==
    \E name \in AdapterNames, message \in Messages,
       conversation_history \in SelectedHistories, pass_history \in BOOLEAN :
        \E ev \in SpawnsOf(name) :
            Invoke(1, name, message, conversation_history, pass_history, ev)

TickAny == \E t \in Instants(calls[1].timeout) : Tick(1, t)

ProbeStartAny == \E name \in AdapterNames, ev \in LookupSpawns : ProbeStart(name, ev)

NextAdapter ==
    \/ InvokeAny
    \/ \E x \in Exits : ProcExit(1, x)
    \/ TickAny
    \/ Complete(1)
    \/ Timeout(1)
    \/ \E text \in ExceptionTexts : Fail(1, text)
    \/ ProbeStartAny
    \/ ProbeRun
    \/ ProbeExit
    \/ ProbeReturn

\* the store plays no part: it is empty
InitAdapter == Init /\ legacy = NoFiles

SpecAdapter == InitAdapter /\ [][NextAdapter]_vars

\* the program's own steps are taken when they can be, the clock goes on and
\* the lookup process, while it lives, runs; nothing makes a process end
FairAdapter ==
    /\ SpecAdapter
    /\ WF_vars(TickAny)
    /\ WF_vars(Complete(1))
    /\ WF_vars(Timeout(1))
    /\ WF_vars(ProbeReturn)
    /\ WF_vars(ProbeRun)

(***************************************************************************)
(* The server tools call_llm and call_llm_parallel                         *)
(* (src/src/mcp_llm_bridge/server.py).  A request reads the conversation   *)
(* and selects the history once, calls its adapters, one task each, and    *)
(* appends the response of each adapter that answered.  A task runs from   *)
(* the return of its adapter to its own return without giving way, so the  *)
(* check of the error and the append are one step.                         *)
(***************************************************************************)
\* lines 103-105 and 178-180: the history the adapters are to get
selection(messages, context_mode, pass_history) ==
    IF pass_history THEN select(messages, context_mode, None)
    ELSE [result |-> <<>>, raised |-> FALSE]

request_selected(req, r, s) ==
    IF s.raised THEN [fs |-> r.fs, srv |-> [req EXCEPT !.st = "raised"]]
    ELSE [fs |-> r.fs,
          srv |-> [req EXCEPT !.st = "fanout", !.log = r.result,
                              !.history = s.result]]

request_read(req, r) ==
    request_selected(req, r, selection(r.result, req.context_mode, req.pass_history))

\* call_llm and call_llm_parallel up to the calls of the adapters
request(fs, req) ==
    IF req.tool = "call_llm_parallel" /\ req.names = <<>>
    THEN [fs |-> fs, srv |-> [req EXCEPT !.st = "raised"]]
    ELSE IF ~conversation_exists(fs, req.cid)
    THEN [fs |-> fs, srv |-> [req EXCEPT !.st = "raised"]]
    ELSE request_read(req, read_messages(fs, req.cid))

\* a task that reads the log again when it calls its adapter
invoke_history_fresh(req, fs) ==
    selection(read_messages(fs, req.cid).result, req.context_mode,
              req.pass_history).result

\* conversation_history=selected_messages: the selection the request made
invoke_history(req, fs) == req.history

\* communicate has returned, or wait_for has given up
awaited(call, oc) ==
    IF oc.kind = "timeout"
    THEN [call EXCEPT !.st = "returned", !.how = "timeout",
                      !.elapsed = call.timeout,
                      !.result = timeout_result(call.name, call.timeout)]
    ELSE [call EXCEPT !.st = "returned", !.how = "exit", !.alive = FALSE,
                      !.exited = Some(oc.x),
                      !.result = exit_result(call.name, oc.x.returncode,
                                             oc.x.stdout, oc.x.stderr, 0)]

\* what a task makes of its adapter call: lines 116-118 and 192-222
slot_of(c) ==
    IF c.st = "raised"
    THEN [adapter |-> c.name, response |-> <<>>,
          error |-> Some(raised_text(c.name, c.how)), success |-> FALSE,
          settled |-> TRUE]
    ELSE IF truthy(c.result.error)
    THEN [adapter |-> c.name, response |-> <<>>, error |-> c.result.error,
          success |-> FALSE, settled |-> TRUE]
    ELSE [adapter |-> c.name, response |-> c.result.response, error |-> None,
          success |-> TRUE, settled |-> TRUE]

RECURSIVE count_success(_)
count_success(results) ==
    IF results = <<>> THEN 0
    ELSE (IF results[1].success THEN 1 ELSE 0) + count_success(Tail(results))

RECURSIVE count_failed(_)
count_failed(results) ==
    IF results = <<>> THEN 0
    ELSE (IF ~results[1].success THEN 1 ELSE 0) + count_failed(Tail(results))

\* lines 228-234
totals_of(names, results) ==
    [total_adapters |-> Len(names), successful |-> count_success(results),
     failed |-> count_failed(results), results |-> results]

\* the requests a client makes
NameLists == {<<>>, <<Bot, Bob>>, <<Nope, Bot>>, <<Bob, Gone>>, <<Web, Bob>>}
Requests ==
    {[NoSrv EXCEPT !.tool = "call_llm", !.cid = ConvId, !.names = <<name>>,
                   !.message = Hi, !.context_mode = context_mode,
                   !.pass_history = pass_history] :
        name \in AdapterNames, context_mode \in {"smart", "other"},
        pass_history \in BOOLEAN}
    \cup
    {[NoSrv EXCEPT !.tool = "call_llm_parallel", !.cid = ConvId,
                   !.names = names, !.message = Hi,
                   !.context_mode = context_mode,
                   !.pass_history = pass_history] :
        names \in NameLists, context_mode \in {"smart", "other"},
        pass_history \in BOOLEAN}

\* the ways an adapter that answers can end: with or without text on stderr,
\* with exit code 0 or not
Answers == {x \in Exits : x.stdout # <<>> /\ x.stderr # <<NL>>}

\* what the awaited process does: it ends, or it outlasts the timeout
Awaits(call) ==
    IF call.st # "running" THEN {[kind |-> "ended", x |-> CHOOSE x \in Answers : TRUE]}
    ELSE {[kind |-> "timeout", x |-> CHOOSE x \in Answers : TRUE]}
         \cup {[kind |-> "exit", x |-> x] : x \in Answers}

Started(r) ==
    /\ Install(r.fs)
    /\ srv' = r.srv

StartRequest(req) ==
    /\ srv.st # "fanout"
    /\ TotalLines(FS) + Len(req.names) <= MaxLog
    /\ Started(request(FS, req))
    /\ calls' = [i \in Slots |-> NoCall]
    /\ UNCHANGED <<now, ret, proc, acked, probe, sel, fault>>

\* a task calls its adapter: lines 108-113 and 185-190
SrvInvoke(i, ev) ==
    /\ srv.st = "fanout"
    /\ i \in 1..Len(srv.names)
    /\ calls[i].st = "idle"
    /\ calls' = [calls EXCEPT ![i] =
                    [call_adapter(srv.names[i], srv.message,
                                  invoke_history(srv, FS), srv.pass_history, ev)
                        EXCEPT !.logged = count_messages(FS, srv.cid)]]
    /\ UNCHANGED <<jsonl, meta, legacy, bak, synced, now, ret, proc, acked,
                   srv, probe, sel, fault>>

\* a task that appends what its adapter gave whether or not the call failed
Settled_appending(i, c, slot, ord) ==
    /\ Install(append_message(FS, srv.cid, c.name, c.result.response, now, ord))
    /\ calls' = [calls EXCEPT ![i] = c]
    /\ srv' = IF srv.tool = "call_llm"
              THEN [srv EXCEPT !.slots[i] = slot,
                               !.st = IF slot.success THEN "returned" ELSE "raised",
                               !.response = slot.response]
              ELSE [srv EXCEPT !.slots[i] = slot]
    /\ UNCHANGED <<now, ret, proc, acked, probe, sel, fault>>

\* the task goes on with the ended call c and returns; one adapter's error
\* is call_llm's ValueError
Settled(i, c, slot, ord) ==
    /\ Install(IF slot.success
               THEN append_message(FS, srv.cid, c.name, c.result.response, now, ord)
               ELSE FS)
    /\ calls' = [calls EXCEPT ![i] = c]
    /\ srv' = IF srv.tool = "call_llm"
              THEN [srv EXCEPT !.slots[i] = slot,
                               !.st = IF slot.success THEN "returned" ELSE "raised",
                               !.response = slot.response]
              ELSE [srv EXCEPT !.slots[i] = slot]
    /\ UNCHANGED <<now, ret, proc, acked, probe, sel, fault>>

Ended(i, c, ord) == Settled(i, c, slot_of(c), ord)

SrvReturn(i, oc, ord) ==
    /\ srv.st = "fanout"
    /\ i \in 1..Len(srv.names)
    /\ calls[i].st # "idle"
    /\ ~srv.slots[i].settled
    /\ Ended(i, IF calls[i].st = "running" THEN awaited(calls[i], oc) ELSE calls[i],
             ord)

\* asyncio.gather has every task's result: lines 225-236
Gather ==
    /\ srv.tool = "call_llm_parallel"
    /\ srv.st = "fanout"
    /\ \A i \in 1..Len(srv.names) : srv.slots[i].settled
    /\ srv' = [srv EXCEPT !.st = "returned",
                  !.totals = totals_of(srv.names,
                                       [i \in 1..Len(srv.names) |-> srv.slots[i]])]
    /\ UNCHANGED <<jsonl, meta, legacy, bak, synced, now, ret, proc, acked,
                   calls, probe, sel, fault>>

NextServer ==
    \/ \E in \in CreateInputs, ord \in CreateOrders :
          CreateConversation(ConvId, in, RandLo, ord)
    \/ \E req \in Requests : StartRequest(req)
    \/ \E i \in Slots : \E ev \in SpawnsOf(IF i <= Len(srv.names) THEN srv.names[i]
                                             ELSE Nope) : SrvInvoke(i, ev)
    \/ \E i \in Slots : \E oc \in Awaits(calls[i]), ord \in Orders(meta, {srv.cid}) :
          SrvReturn(i, oc, ord)
    \/ Gather

SpecServer == Init /\ [][NextServer]_vars

\* the adapter call c has failed
failed(c) ==
    \/ c.st = "raised"
    \/ c.st = "returned" /\ c.how \in {"not_found", "exception", "timeout"}
    \/ c.st = "returned" /\ c.how = "exit" /\ c.result.exit_code # 0

(***************************************************************************)
(* C11.  A failed adapter call never changes the conversation: when an     *)
(* adapter call made by call_llm or call_llm_parallel fails (unknown       *)
(* adapter, unsupported type, spawn failure, timeout or non-zero exit),    *)
(* the step in which the request takes note of it appends nothing and      *)
(* leaves the log and the metadata of the conversation as they were.       *)
(***************************************************************************)
C11_Step ==
    \A i \in Slots :
        ~srv.slots[i].settled /\ srv'.slots[i].settled /\ failed(calls'[i]) =>
            /\ Log(FS', srv.cid) = Log(FS, srv.cid)
            /\ meta' = meta

C11_FailureNoChange == [][C11_Step]_vars

(***************************************************************************)
(* C12.  In call_llm_parallel the failure of one adapter is reported in    *)
(* its own slot, with success false and an error; the call returns with    *)
(* one slot for each requested adapter, in the order of the request, and   *)
(* successful + failed = total_adapters.                                   *)
(***************************************************************************)
C12_Isolation ==
    /\ srv.tool = "call_llm_parallel" /\ srv.st = "fanout" =>
          \A i \in 1..Len(srv.names) :
              srv.slots[i].settled /\ failed(calls[i]) =>
                  ~srv.slots[i].success /\ truthy(srv.slots[i].error)
    /\ srv.tool = "call_llm_parallel" /\ srv.st = "returned" =>
          /\ srv.totals.total_adapters = Len(srv.names)
          /\ Len(srv.totals.results) = Len(srv.names)
          /\ \A i \in 1..Len(srv.names) :
                /\ srv.totals.results[i].adapter = srv.names[i]
                /\ failed(calls[i]) =>
                      /\ ~srv.totals.results[i].success
                      /\ truthy(srv.totals.results[i].error)
          /\ srv.totals.successful + srv.totals.failed = srv.totals.total_adapters

(***************************************************************************)
(* C13.  In call_llm_parallel every adapter is called with the same        *)
(* history, the selection made once of the log as it was before the        *)
(* adapters were called: what an adapter is given holds no response that   *)
(* another adapter of the same request has appended, in whatever order     *)
(* they end.                                                               *)
(***************************************************************************)
C13_SameHistory ==
    srv.tool = "call_llm_parallel" /\ srv.st \in {"fanout", "returned"} =>
        \A i \in 1..Len(srv.names) :
            calls[i].st \in {"running", "returned"} =>
                calls[i].input =
                    spawn_input(Adapters[srv.names[i]], srv.message,
                                selection(srv.log, srv.context_mode,
                                          srv.pass_history).result,
                                srv.pass_history)

\* an adapter was called with the history after the other had appended
C13_Witness ==
    /\ srv.tool = "call_llm_parallel"
    /\ srv.pass_history
    /\ srv.log # <<>>
    /\ \E i \in 1..Len(srv.names) :
          /\ calls[i].st = "running"
          /\ calls[i].logged > Len(srv.log)
          /\ truthy(calls[i].input.stdin)

(***************************************************************************)
(* C14.  When the adapter process has not ended within the timeout,        *)
(* call_adapter returns a result whose error names the timeout, and when   *)
(* it returns the process has been killed: it is not left running.         *)
(***************************************************************************)
C14_TimedOutKilled ==
    \A i \in Slots :
        calls[i].st = "returned" /\ calls[i].how = "timeout" =>
            /\ truthy(calls[i].result.error)
            /\ contains(calls[i].result.error[1], IntToStr(calls[i].timeout))
            /\ ~calls[i].alive

(***************************************************************************)
(* C15.  Every await of an external process, in call_adapter and in        *)
(* test_adapter, ends whatever the process does: a call that waits         *)
(* returns.                                                                *)
(***************************************************************************)
C15_Bounded ==
    /\ \A i \in Slots : (calls[i].st = "running") ~> (calls[i].st # "running")
    /\ (probe.st = "waiting") ~> (probe.st # "waiting")

(***************************************************************************)
(* C16.  For a timeout, a command that is not found and any other failure  *)
(* of the spawn or of the communication, call_adapter returns a result     *)
(* with an empty response, exit code -1 and an error that is not empty,    *)
(* and the error holds "not found" when the command does not exist.        *)
(***************************************************************************)
C16_FailureResult ==
    \A i \in Slots :
        /\ calls[i].name \in DOMAIN Adapters /\ Adapters[calls[i].name].type = Bash
              => calls[i].st # "raised"
        /\ calls[i].st = "returned" /\ calls[i].how # "exit" =>
              /\ calls[i].result.response = <<>>
              /\ calls[i].result.exit_code = -1
              /\ truthy(calls[i].result.error)
              /\ Adapters[calls[i].name].command \notin Installed =>
                    contains(calls[i].result.error[1],
                             <<"n", "o", "t", " ", "f", "o", "u", "n", "d">>)

(***************************************************************************)
(* C17.  When the process has ended by itself, the response is its stdout  *)
(* trimmed; the error is its stderr trimmed, the empty string for an empty *)
(* stderr, if the exit code is not zero, and absent if the exit code is    *)
(* zero whatever stderr holds.                                             *)
(***************************************************************************)
C17_CleanExit ==
    \A i \in Slots :
        calls[i].st = "returned" /\ calls[i].how = "exit" =>
            /\ calls[i].result.response = strip(calls[i].exited[1].stdout)
            /\ calls[i].result.exit_code = calls[i].exited[1].returncode
            /\ calls[i].exited[1].returncode # 0 =>
                  calls[i].result.error = Some(strip(calls[i].exited[1].stderr))
            /\ calls[i].exited[1].returncode = 0 => calls[i].result.error = None

(***************************************************************************)
(* C18.  test_adapter never raises: it returns false for an adapter that   *)
(* is not configured as for every other lookup failure, and true only when *)
(* the adapter's command is found.                                         *)
(***************************************************************************)
C18_NeverRaises ==
    /\ probe.st # "raised"
    /\ probe.st = "returned" /\ probe.out =>
          /\ probe.name \in DOMAIN Adapters
          /\ Adapters[probe.name].command \in Installed

(***************************************************************************)
(* Migration: a store that holds ConvId as a legacy file of two messages,  *)
(* with or without a sidecar, on a file system that may fail.              *)
(***************************************************************************)
InitMigrate ==
    /\ BridgeIdle
    /\ sel = NoSel
    /\ fault \in Faults
    /\ jsonl = NoFiles
    /\ bak = NoFiles
    /\ legacy = Put(NoFiles, ConvId, LegacyPair)
    /\ meta \in {NoFiles, Put(NoFiles, ConvId, PairMetadata)}
    /\ synced = NoFiles
    /\ now = 1
    /\ ret = NoRet
    /\ proc = [w \in Writers |-> Idle]
    /\ acked = {}

\* the file system starts to fail, or recovers
SetFault(f) ==
    /\ fault' = f
    /\ fault' # fault
    /\ UNCHANGED <<jsonl, meta, legacy, bak, synced, now, ret, proc, acked,
                   calls, srv, probe, sel>>

\* the lines of a conversation's file
LinesOf(cid) ==
    IF sanitize_id(cid) \in DOMAIN jsonl THEN Len(file_lines(jsonl[sanitize_id(cid)]))
    ELSE IF sanitize_id(cid) \in DOMAIN legacy THEN Len(legacy[sanitize_id(cid)])
    ELSE 0

\* append_message on a store that may hold MaxLog lines
AppendMore(cid, speaker, content, ord) ==
    /\ LinesOf(cid) < MaxLog
    /\ Install(append_message(FS, cid, speaker, content, now, ord))
    /\ ret' = [NoRet EXCEPT !.op = "append", !.cid = cid, !.speaker = speaker,
                            !.content = content,
                            !.before = count_messages(FS, cid)]
    /\ UNCHANGED <<now, proc, acked, bridge>>

NextMigrate ==
    \/ \E f \in Faults : SetFault(f)
    \/ \E ord \in CreateOrders : CreateConversation(ConvId, [im |-> <<>>, tp |-> <<>>, hn |-> <<>>], RandLo, ord)
    \/ \E ord \in Orders(meta, {ConvId}) : AppendMore(ConvId, Bot, Hi, ord)
    \/ ReadMessages(ConvId)
    \/ \E ord \in Orders(meta, {ConvId}) : GetMetadata(ConvId, ord)
    \/ \E ord \in Orders(meta, {ConvId}) : ListConversations(ord)

SpecMigrate == InitMigrate /\ [][NextMigrate]_vars

\* the step is an operation that touches the conversation with this safe id:
\* a read, an append, or a get_metadata or list_conversations with no sidecar
Touched(id) ==
    \/ ret'.op \in {"read", "append"} /\ sanitize_id(ret'.cid) = id
    \/ ret'.op = "get_metadata" /\ sanitize_id(ret'.cid) = id /\ id \notin DOMAIN meta
    \/ ret'.op = "list" /\ id \notin DOMAIN meta

\* the step is an operation on a conversation that is a legacy file only
FirstTouch(id) ==
    /\ id \in DOMAIN legacy
    /\ id \notin DOMAIN jsonl
    /\ fault' = fault
    /\ Touched(id)

(***************************************************************************)
(* C25.  Migration preserves content: the first operation that touches a   *)
(* conversation held as a legacy file only (read_messages, append_message, *)
(* or get_metadata or list_conversations without a sidecar) writes a       *)
(* .jsonl file of exactly the array's messages in their order, one to a    *)
(* line, and renames the legacy file to its backup; read_messages returns  *)
(* those messages.                                                         *)
(***************************************************************************)
C25_Step ==
    \A id \in DOMAIN legacy :
        FirstTouch(id) /\ fault.kind = "none" =>
            /\ id \in DOMAIN jsonl'
            /\ id \notin DOMAIN legacy'
            /\ id \in DOMAIN bak' /\ bak'[id] = legacy[id]
            /\ ret'.op = "read" => ret'.out = legacy[id]
            /\ ret'.op # "append" =>
                  /\ Log(FS', id) = legacy[id]
                  /\ Len(file_lines(jsonl'[id])) = Len(legacy[id])
            /\ ret'.op = "append" =>
                  /\ IsPrefix(legacy[id], Log(FS', id))
                  /\ Len(Log(FS', id)) = Len(legacy[id]) + 1

C25_MigrationPreserves == [][C25_Step]_vars

\* migrated by a list_conversations: both messages are in the log, in order
C25_Witness ==
    /\ ret.op = "list"
    /\ ConvId \in DOMAIN jsonl
    /\ ConvId \in DOMAIN bak
    /\ ConvId \notin DOMAIN legacy
    /\ Len(Log(FS, ConvId)) = 2
    /\ Log(FS, ConvId)[2].content = Long

(***************************************************************************)
(* C26.  Migration is idempotent: when the .jsonl file exists, an          *)
(* operation on the conversation migrates nothing: the log gains no record *)
(* but the one an append adds, the backup is neither made nor written      *)
(* again, the legacy file stays as it is; to migrate twice is to migrate   *)
(* once.                                                                   *)
(***************************************************************************)
C26_Step ==
    /\ \A id \in DOMAIN jsonl :
          /\ id \in DOMAIN jsonl'
          /\ ret'.op # "append" => jsonl'[id] = jsonl[id]
          /\ ret'.op = "append" =>
                /\ IsPrefix(jsonl[id], jsonl'[id])
                /\ Len(file_lines(jsonl'[id])) <= Len(file_lines(jsonl[id])) + 1
          /\ id \in DOMAIN bak' <=> id \in DOMAIN bak
          /\ id \in DOMAIN bak => bak'[id] = bak[id]
          /\ id \in DOMAIN legacy' <=> id \in DOMAIN legacy
          /\ id \in DOMAIN legacy => legacy'[id] = legacy[id]
    /\ migrate_if_needed(migrate_if_needed(FS, ConvId), ConvId)
          = migrate_if_needed(FS, ConvId)

C26_Idempotent == [][C26_Step]_vars

\* a read of a conversation that has its .jsonl file and, the rename having
\* failed, its legacy file as well
C26_Witness ==
    /\ ret.op = "read"
    /\ ConvId \in DOMAIN jsonl
    /\ ConvId \in DOMAIN legacy
    /\ ConvId \notin DOMAIN bak
    /\ Len(Log(FS, ConvId)) = 3

(***************************************************************************)
(* C27.  When the write of the .jsonl file fails during a migration, the   *)
(* migration stops with the legacy file still there under its name and     *)
(* unchanged, neither renamed nor deleted, and the operation that set it   *)
(* off does not raise.                                                     *)
(***************************************************************************)
C27_Step ==
    \A id \in DOMAIN legacy :
        FirstTouch(id) /\ fault.kind \in {"open", "write"} =>
            /\ id \in DOMAIN legacy' /\ legacy'[id] = legacy[id]
            /\ id \notin DOMAIN bak'
            /\ ~ret'.raised

C28_Step ==
    \A id \in DOMAIN legacy :
        /\ FirstTouch(id) /\ fault.kind = "rename" =>
              /\ id \in DOMAIN jsonl'
              /\ IsPrefix(legacy[id], Log(FS', id))
              /\ ~ret'.raised
              /\ ret'.op = "read" => ret'.out = legacy[id]
        /\ id \in DOMAIN jsonl /\ IsPrefix(legacy[id], Log(FS, id)) =>
              /\ IsPrefix(Log(FS, id), Log(FS', id))
              /\ ret'.op = "read" /\ sanitize_id(ret'.cid) = id =>
                    ret'.out = Log(FS, id)
              /\ ret'.op = "list" =>
                    ret'.listed = Cardinality(DOMAIN jsonl \cup DOMAIN legacy)
              /\ ret'.op = "create" /\ sanitize_id(ret'.cid) = id => ret'.raised

C28_RenameFailureMigrated == [][C28_Step]_vars

\* both files are there, the log has gone on growing, and the list has one
\* entry
C28_Witness ==
    /\ ret.op = "list"
    /\ ret.listed = 1
    /\ ConvId \in DOMAIN jsonl
    /\ ConvId \in DOMAIN legacy
    /\ Len(Log(FS, ConvId)) = 3

\* the step is a create_conversation called with an id
CreateOf(id) == ret'.op = "create" /\ ret'.cid # <<>> /\ sanitize_id(ret'.cid) = id

\* the files of the store
Files == <<jsonl, meta, legacy, bak, synced>>

(***************************************************************************)
(* C29.  create_conversation with an id whose sanitized form has a log,    *)
(* a .jsonl file or a legacy file not yet migrated, raises (the            *)
(* conversation already exists) and leaves every file as it was: no        *)
(* message is appended, nothing is truncated or overwritten, the legacy    *)
(* file is not migrated.                                                   *)
(***************************************************************************)
C29_Step ==
    /\ \A id \in DOMAIN jsonl \cup DOMAIN legacy :
          CreateOf(id) => ret'.raised /\ Files' = Files
    /\ ret'.op = "create" /\ ret'.raised => Files' = Files

C29_AlreadyExists == [][C29_Step]_vars

\* a create with an initial message was refused on a conversation that is
\* still a legacy file
C29_Witness ==
    /\ ret.op = "create"
    /\ ret.raised
    /\ ret.content = Hi
    /\ ConvId \in DOMAIN legacy
    /\ ConvId \notin DOMAIN jsonl

\* "host_" and the label, or "host" with no label
HostOf(label) == IF label = <<>> THEN Host ELSE Host \o <<"_">> \o label

\* the step is a create_conversation that made the conversation it returns
Created == ret'.op = "create" /\ ~ret'.raised /\ ret'.out # <<>>

(***************************************************************************)
(* C30.  A create_conversation with a non-empty initial message leaves a   *)
(* log of exactly one message, with turn 1, the initial message as content *)
(* and the speaker "host_" + label, or "host" with no label, and metadata  *)
(* with that speaker as the only participant and message_count 1; with an  *)
(* empty initial message it leaves an empty log, no participants and       *)
(* message_count 0.                                                        *)
(***************************************************************************)
C30_Step ==
    Created =>
        /\ get_conversation_path(ret'.out) \in DOMAIN jsonl'
        /\ get_metadata_path(ret'.out) \in DOMAIN meta'
        /\ ret'.content # <<>> =>
              /\ Len(Log(FS', ret'.out)) = 1
              /\ Log(FS', ret'.out)[1].turn = 1
              /\ Log(FS', ret'.out)[1].content = ret'.content
              /\ Log(FS', ret'.out)[1].speaker = HostOf(ret'.speaker)
              /\ meta'[get_metadata_path(ret'.out)].participants
                    = <<HostOf(ret'.speaker)>>
              /\ meta'[get_metadata_path(ret'.out)].message_count = 1
        /\ ret'.content = <<>> =>
              /\ Log(FS', ret'.out) = <<>>
              /\ jsonl'[get_conversation_path(ret'.out)] = <<>>
              /\ meta'[get_metadata_path(ret'.out)].participants = <<>>
              /\ meta'[get_metadata_path(ret'.out)].message_count = 0

BadByte == "0xC3"

\* the file is opened with encoding="utf-8" and read in text mode: the
\* iteration over its lines raises UnicodeDecodeError unless every byte decodes
decodes(text) == BadByte \notin Range(text)

\* the position a slice index stands for in a list of n elements
slice_index(i, n) ==
    IF i < 0 THEN (IF i + n < 0 THEN 0 ELSE i + n) ELSE IF i > n THEN n ELSE i

\* messages[start:end], start and end each None or an integer
slice(messages, start, end) ==
    SubSeq(messages,
           (IF start = None THEN 0 ELSE slice_index(start[1], Len(messages))) + 1,
           IF end = None THEN Len(messages) ELSE slice_index(end[1], Len(messages)))

read_sliced(r, start, end) ==
    [fs |-> r.fs,
     result |-> IF start # None \/ end # None THEN slice(r.result, start, end)
                ELSE r.result,
     raised |-> FALSE]

read_decoded(fs, conv_path, start, end) ==
    IF conv_path \in DOMAIN fs.jsonl /\ ~decodes(fs.jsonl[conv_path])
    THEN [fs |-> fs, result |-> <<>>, raised |-> TRUE]
    ELSE read_sliced(read_file(fs, conv_path), start, end)

\* read_messages(conversation_id, start, end): the store after it, the
\* messages returned, and whether it raised (UnicodeDecodeError)
read_messages_slice(fs, conversation_id, start, end) ==
    read_decoded(migrate_if_needed(fs, conversation_id),
                 get_conversation_path(conversation_id), start, end)

\* the lines a log can hold: two records, a line that is no JSON, a
\* blank line, a record cut short, a record cut inside a character
GoodLine1 == json_dump(new_message(0, Host, Hi, 0))
GoodLine2 == json_dump(new_message(1, Bot, Hi, 1))
JunkLine == <<"{", "x">>
BlankLine == <<SPACE>>
CutLine == head_chars(GoodLine1, 5)
BadLine == head_chars(GoodLine2, 9) \o <<BadByte>>
LogLines == {GoodLine1, GoodLine2, JunkLine, BlankLine, CutLine, BadLine}

\* the most lines a log starts with
MaxLines == 3

RECURSIVE lines_text(_)
lines_text(lines) ==
    IF lines = <<>> THEN <<>> ELSE Head(lines) \o <<NL>> \o lines_text(Tail(lines))

LogTexts == {lines_text(ls) : ls \in UNION {[1..n -> LogLines] : n \in 0..MaxLines}}

\* a conversation nobody created
UnknownId == <<"c", "o", "n", "v", "_", "9">>

Starts == {None, Some(0), Some(1), Some(-1)}
Ends == {None, Some(1), Some(2)}

InitRead ==
    /\ BridgeIdle
    /\ sel = NoSel
    /\ fault = NoFault
    /\ \E text \in LogTexts : jsonl = Put(NoFiles, ConvId, text)
    /\ meta = NoFiles
    /\ legacy = NoFiles
    /\ bak = NoFiles
    /\ synced = NoFiles
    /\ now = 1
    /\ ret = NoRet
    /\ proc = [w \in Writers |-> Idle]
    /\ acked = {}

ReadSlice(cid, start, end) ==
    /\ Return(read_messages_slice(FS, cid, start, end),
              [NoRet EXCEPT !.op = "read", !.cid = cid, !.start = start,
                            !.end = end])
    /\ UNCHANGED <<now, proc, acked, bridge>>

NextRead ==
    \E cid \in {ConvId, UnknownId}, start \in Starts, end \in Ends :
        ReadSlice(cid, start, end)

SpecRead == InitRead /\ [][NextRead]_vars

\* the records of the lines of text that parse, in file order
RECURSIVE ParsedFrom(_, _)
ParsedFrom(lines, i) ==
    IF i > Len(lines) THEN <<>>
    ELSE IF json_loads(strip(lines[i])).ok
    THEN <<json_loads(strip(lines[i])).msg>> \o ParsedFrom(lines, i + 1)
    ELSE ParsedFrom(lines, i + 1)

Parsed(text) == ParsedFrom(file_lines(text), 1)

\* the elements of s at the positions from lo up to, not including, hi,
\* counted from 0
HalfOpen(s, lo, hi) == [k \in 1..((IF hi < Len(s) THEN hi ELSE Len(s)) - lo) |-> s[lo + k]]

\* what the read of the step has to return: the parsed records, or their
\* slice when start or end is given (an index that is not given is the end
\* of the list on its side)
Expected(text) ==
    HalfOpen(Parsed(text),
             IF ret'.start = None THEN 0 ELSE ret'.start[1],
             IF ret'.end = None THEN Len(Parsed(text)) ELSE ret'.end[1])

(***************************************************************************)
(* C31.  read_messages never fails on missing or corrupted data: for an    *)
(* unknown id it returns the empty list, and for a log it returns the      *)
(* records of the lines that parse, in file order, every other line        *)
(* skipped; with start and end, the half-open slice [start, end) of them.  *)
(***************************************************************************)
C31_Step ==
    ret'.op = "read" =>
        /\ ~ret'.raised
        /\ sanitize_id(ret'.cid) \notin DOMAIN jsonl => ret'.out = <<>>
        /\ sanitize_id(ret'.cid) \in DOMAIN jsonl
              /\ (ret'.start # None => ret'.start[1] >= 0) =>
                 ret'.out = Expected(jsonl[sanitize_id(ret'.cid)])

C31_NeverFails == [][C31_Step]_vars

\* the same with the failure left out: what a read that returns gives
ReadsWhatParses == [][ret'.raised \/ C31_Step]_vars

(***************************************************************************)
(* list_conversations with its sort and its limit, on a clock that moves.  *)
(***************************************************************************)
\* a < b for two strings of digits, compared character by character
RECURSIVE str_less(_, _)
str_less(a, b) ==
    IF b = <<>> THEN FALSE
    ELSE IF a = <<>> THEN TRUE
    ELSE IF Head(a) = Head(b) THEN str_less(Tail(a), Tail(b))
    ELSE DigitVal(Head(a)) < DigitVal(Head(b))

\* key(x) < key(y) for key = lambda x: x.get(sort_by, "")
key_less(x, y, sort_by) ==
    IF sort_by = "message_count" THEN x.message_count < y.message_count
    ELSE str_less(x[sort_by], y[sort_by])

\* x has to stand before y in the sorted list
goes_before(x, y, sort_by, reverse) ==
    IF reverse THEN key_less(y, x, sort_by) ELSE key_less(x, y, sort_by)

insert_at(acc, x, k) == SubSeq(acc, 1, k) \o <<x>> \o SubSeq(acc, k + 1, Len(acc))

\* x goes behind every element it does not have to stand before: the sort is
\* stable, with reverse as well
insert_sorted(acc, x, sort_by, reverse) ==
    insert_at(acc, x,
        Cardinality({i \in 1..Len(acc) : ~goes_before(x, acc[i], sort_by, reverse)}))

RECURSIVE sort_from(_, _, _, _, _)
sort_from(conversations, i, acc, sort_by, reverse) ==
    IF i > Len(conversations) THEN acc
    ELSE sort_from(conversations, i + 1,
                   insert_sorted(acc, conversations[i], sort_by, reverse),
                   sort_by, reverse)

\* a sort that takes no notice of reverse
sorted_ascending(conversations, sort_by, reverse) ==
    sort_from(conversations, 1, <<>>, sort_by, FALSE)

\* conversations.sort(key=lambda x: x.get(sort_by, ""), reverse=reverse)
sorted_conversations(conversations, sort_by, reverse) ==
    sort_from(conversations, 1, <<>>, sort_by, reverse)

\* the metadata collected for ids, in the order glob yields the files
in_glob_order(result, ids, glob) ==
    [i \in 1..Len(SelectSeq(glob, LAMBDA x : x \in ids)) |->
        CHOOSE m \in result : m.id = SelectSeq(glob, LAMBDA x : x \in ids)[i]]

\* the list before the sort: the .jsonl files, then the legacy files not seen
collected(r, seen_ids, legacy_ids, glob) ==
    in_glob_order(r.result, seen_ids, glob)
        \o in_glob_order(r.result, legacy_ids \ seen_ids, glob)

list_limited(r, conversations, limit, sort_by, order) ==
    [fs |-> r.fs,
     result |-> slice(sorted_conversations(conversations, sort_by, order = "desc"),
                      None, Some(limit))]

list_ordered(fs, r, glob, limit, sort_by, order) ==
    list_limited(r, collected(r, DOMAIN fs.jsonl, DOMAIN fs.legacy, glob),
                 limit, sort_by, order)

\* list_conversations(limit, sort_by, order): the store after it and the list
\* returned; glob is the order the directory yields its files in
list_conversations_sorted(fs, t, ord, glob, limit, sort_by, order) ==
    list_ordered(fs, list_conversations(fs, t, ord), glob, limit, sort_by, order)

Conv2 == <<"c", "o", "n", "v", "_", "2">>
GlobOrders == {<<ConvId, Conv2>>, <<Conv2, ConvId>>}
DefaultLimit == 20
Limits == {0, 1, DefaultLimit}
SortFields == {"created_at", "updated_at", "message_count"}
SortOrders == {"asc", "desc"}

InitList ==
    /\ BridgeIdle
    /\ sel = NoSel
    /\ fault = NoFault
    /\ jsonl = NoFiles
    /\ bak = NoFiles
    /\ \/ legacy = NoFiles
       \/ legacy = Put(NoFiles, ConvId, LegacyMessages)
    /\ meta = NoFiles
    /\ synced = NoFiles
    /\ now = 1
    /\ ret = NoRet
    /\ proc = [w \in Writers |-> Idle]
    /\ acked = {}

\* the clock moves on
Pass ==
    /\ now < MaxNow
    /\ now' = now + 1
    /\ UNCHANGED <<jsonl, meta, legacy, bak, synced, ret, proc, acked, bridge>>

ListSorted(ord, glob, limit, sort_by, order) ==
    /\ Return(list_conversations_sorted(FS, now, ord, glob, limit, sort_by, order),
              [NoRet EXCEPT !.op = "list", !.limit = limit, !.sort_by = sort_by,
                            !.order = order])
    /\ UNCHANGED <<now, proc, acked, bridge>>

NextList ==
    \/ Pass
    \/ \E cid \in {ConvId, Conv2}, im \in {<<>>, Hi}, ord \in CreateOrders :
          CreateConversation(cid, [im |-> im, tp |-> <<>>, hn |-> <<>>], RandLo, ord)
    \/ \E cid \in DOMAIN jsonl \cup DOMAIN legacy :
          \E ord \in Orders(meta, {cid}) : AppendMessage(cid, Bot, Hi, ord)
    \/ \E glob \in GlobOrders, limit \in Limits, sort_by \in SortFields,
          order \in SortOrders :
          \E ord \in Orders(meta, DOMAIN jsonl \cup DOMAIN legacy) :
              ListSorted(ord, glob, limit, sort_by, order)

SpecList == InitList /\ [][NextList]_vars

\* the conversations the store knows
Known == DOMAIN jsonl \cup DOMAIN legacy

\* the time of the last append to a conversation, or nothing
LastAppend(id) == IF Log(FS, id) = <<>> THEN <<>> ELSE Last(Log(FS, id)).timestamp

(***************************************************************************)
(* C32 as stated.  A list_conversations sorted by updated_at, descending,  *)
(* with room for an entry, puts first a conversation that was appended to  *)
(* and to which no append is older than an append to another conversation. *)
(***************************************************************************)
C32_Step ==
    /\ ret'.op = "list" /\ ret'.sort_by = "updated_at" /\ ret'.order = "desc"
    /\ ret'.limit >= 1
    /\ \E id \in Known : LastAppend(id) # <<>>
    => /\ ret'.out # <<>>
       /\ LastAppend(ret'.out[1].id) # <<>>
       /\ \A id \in Known : ~str_less(LastAppend(ret'.out[1].id), LastAppend(id))

InOrder(out, sort_by, order) ==
    \A i, j \in 1..Len(out) :
        i < j => ~goes_before(out[j], out[i], sort_by, order = "desc")

(***************************************************************************)
(* C32, amended.  list_conversations(limit, sort_by, order), sort_by one   *)
(* of created_at, updated_at, message_count and limit >= 0, returns the    *)
(* metadata of known conversations (.jsonl or legacy), none twice, ordered *)
(* by the field as asked, min(limit, number known) of them, and no         *)
(* conversation left out goes before one returned: sorted by updated_at,   *)
(* descending, the first has the latest updated_at of all.                 *)
(***************************************************************************)
C32_ListStep ==
    ret'.op = "list" =>
        /\ Len(ret'.out) = (IF ret'.limit < Cardinality(Known) THEN ret'.limit
                            ELSE Cardinality(Known))
        /\ \A i \in 1..Len(ret'.out) :
              /\ ret'.out[i].id \in Known
              /\ ret'.out[i] = meta'[ret'.out[i].id]
              /\ \A j \in 1..Len(ret'.out) : i # j => ret'.out[i].id # ret'.out[j].id
              /\ \A id \in Known' :
                    ~goes_before(meta'[id], ret'.out[i], ret'.sort_by,
                                 ret'.order = "desc")
                    \/ \E j \in 1..Len(ret'.out) : ret'.out[j].id = id
        /\ InOrder(ret'.out, ret'.sort_by, ret'.order)

last_from(messages, count) == slice(messages, Some(0 - count), None)

\* recent = messages[-count:] if len(messages) > count else messages
recent_of(messages, count) ==
    IF Len(messages) > count THEN last_from(messages, count) ELSE messages

\* the text of one message: its heading, its content and an empty line
recent_lines(msg) ==
    <<<<"[", "T", "u", "r", "n", " ">> \o IntToStr(msg.turn) \o <<"]", " ">>
          \o msg.speaker \o <<":">>,
      msg.content, <<>>>>

RECURSIVE recent_text(_)
recent_text(recent) ==
    IF recent = <<>> THEN <<>> ELSE recent_lines(Head(recent)) \o recent_text(Tail(recent))

recent_read(r, count) ==
    [fs |-> r.fs, result |-> recent_of(r.result, count),
     lines |-> recent_text(recent_of(r.result, count)), raised |-> FALSE]

\* get_recent_messages(conversation_id, count): the store after it, the
\* messages it formats, the lines of its text, and whether it raised
get_recent_messages(fs, conversation_id, count) ==
    IF ~conversation_exists(fs, conversation_id)
    THEN [fs |-> fs, result |-> <<>>, lines |-> <<>>, raised |-> TRUE]
    ELSE recent_read(read_messages(fs, conversation_id), count)

DefaultCount == 5
Counts == {0, 1, 2, DefaultCount}

GetRecent(cid, count) ==
    /\ Return(get_recent_messages(FS, cid, count),
              [NoRet EXCEPT !.op = "recent", !.cid = cid, !.count = count])
    /\ UNCHANGED <<now, proc, acked, bridge>>

NextRecent ==
    \/ \E im \in {<<>>, Hi}, ord \in CreateOrders :
          CreateConversation(ConvId, [im |-> im, tp |-> <<>>, hn |-> <<>>], RandLo, ord)
    \/ \E speaker \in {Bot, Host} : \E ord \in Orders(meta, {ConvId}) :
          AppendMore(ConvId, speaker, Hi, ord)
    \/ \E cid \in {ConvId, UnknownId}, count \in Counts : GetRecent(cid, count)

SpecRecent == InitList /\ [][NextRecent]_vars

\* the smaller of two numbers
Min(a, b) == IF a < b THEN a ELSE b

\* the last k elements of s
Tail_k(s, k) == SubSeq(s, Len(s) - k + 1, Len(s))

(***************************************************************************)
(* C33.  get_recent_messages(id, count) on a conversation of n messages    *)
(* returns the last min(count, n) messages in log order, never more than   *)
(* count, so none for count = 0, and fails for a conversation that does    *)
(* not exist.                                                              *)
(***************************************************************************)
C33_Step ==
    ret'.op = "recent" =>
        IF sanitize_id(ret'.cid) \notin Known THEN ret'.raised
        ELSE /\ ~ret'.raised
             /\ Len(ret'.out) <= ret'.count
             /\ ret'.out = Tail_k(Log(FS, ret'.cid),
                                  Min(ret'.count, Len(Log(FS, ret'.cid))))

C33_LastCount == [][C33_Step]_vars

\* the same for a count of at least 1
RecentWhenPositive == [][ret'.count = 0 \/ C33_Step]_vars

\* the distinct speakers of the messages, each where it first appears
RECURSIVE FirstAppearance(_, _, _)
FirstAppearance(messages, i, acc) ==
    IF i > Len(messages) THEN acc
    ELSE FirstAppearance(messages, i + 1,
             IF messages[i].speaker \in Range(acc) THEN acc
             ELSE Append(acc, messages[i].speaker))

\* the step is a get_metadata that finds no sidecar and a log with messages
DerivedNow ==
    /\ fault' = fault
    /\ ret'.op = "get_metadata"
    /\ get_metadata_path(ret'.cid) \notin DOMAIN meta
    /\ Log(FS', ret'.cid) # <<>>

(***************************************************************************)
(* C34.  When get_metadata derives the metadata from the log, there being  *)
(* no sidecar, participants lists each distinct speaker once, in the order *)
(* of its first appearance in the log, so that the same log always gives   *)
(* the same list.                                                          *)
(***************************************************************************)
C34_Step ==
    DerivedNow => ret'.out[1].participants = FirstAppearance(Log(FS', ret'.cid), 1, <<>>)

C34_FirstAppearance == [][C34_Step]_vars

\* the same for the set of the participants: each speaker of the log once
ParticipantsAsSet ==
    [][DerivedNow =>
          /\ Range(ret'.out[1].participants) = speakers_of(Log(FS', ret'.cid))
          /\ Len(ret'.out[1].participants)
                = Cardinality(speakers_of(Log(FS', ret'.cid)))]_vars

\* the log of the request's conversation
SrvLog == Log(FS, srv.cid)

\* the request has returned to its caller: the log holds what it held when
\* the request read it and one record for each slot with success, numbered on
\* from there
Returned(log) ==
    /\ IsPrefix(srv'.log, log)
    /\ \A k \in (Len(srv'.log) + 1)..Len(log) : log[k].turn = k
    /\ srv'.tool = "call_llm" => Len(log) = Len(srv'.log) + 1
    /\ srv'.tool = "call_llm_parallel" =>
          Len(log) = Len(srv'.log) + srv'.totals.successful

\* the task of slot i has ended: what it did to the log
Recorded(i, before, after) ==
    IF srv'.slots[i].success
    THEN /\ Len(after) = Len(before) + 1
         /\ IsPrefix(before, after)
         /\ Last(after).speaker = srv.names[i]
         /\ Last(after).content = srv'.slots[i].response
         /\ Last(after).turn = Len(before) + 1
    ELSE after = before

(***************************************************************************)
(* C35.  Every adapter call of call_llm or call_llm_parallel that its task *)
(* takes for a success appends exactly one record, with the adapter's name *)
(* as speaker and its response as content, and the caller's message is not *)
(* recorded; a call taken for a failure appends nothing; when the request  *)
(* returns, the log has grown by the number of slots with success = true,  *)
(* and the new records have the turn numbers that follow the earlier       *)
(* count, one after the other, in whatever order the adapters end.         *)
(***************************************************************************)
C35_Step ==
    /\ \A i \in Slots :
          ~srv.slots[i].settled /\ srv'.slots[i].settled =>
              Recorded(i, SrvLog, Log(FS', srv.cid))
    /\ srv.st = "fanout" /\ srv'.st = "returned" => Returned(Log(FS', srv.cid))

C35_OneRecordEach == [][C35_Step]_vars

\* a fan-out has returned with two successes, and the adapter asked second
\* was the first to append
C35_Witness ==
    /\ srv.tool = "call_llm_parallel"
    /\ srv.st = "returned"
    /\ srv.totals.successful = 2
    /\ srv.names[1] # srv.names[2]
    /\ Len(SrvLog) = Len(srv.log) + 2
    /\ SrvLog[Len(srv.log) + 1].speaker = srv.names[2]
    /\ SrvLog[Len(srv.log) + 2].speaker = srv.names[1]

(***************************************************************************)
(* What _call_bash_adapter spawns: the command line and the standard       *)
(* input, for adapters of every input method and messages and histories of *)
(* every kind.  A stdin of None is stdin=None of create_subprocess_exec:   *)
(* no pipe is made and the process has the server's own standard input.    *)
(***************************************************************************)
Twice == <<"t", "w", "i", "c", "e">>
Plain == <<"p", "l", "a", "i", "n">>
Piped == <<"p", "i", "p", "e", "d">>

\* Bot reads stdin and has no args, Bob has an arg with the placeholder,
\* Twice an arg with two of them, Plain args without one, Piped reads stdin
\* and has an arg with the placeholder
CommandAdapters ==
    (Bot :> Adapters[Bot])
    @@ (Bob :> Adapters[Bob])
    @@ (Twice :> [type |-> Bash, command |-> Llm,
                  args |-> <<Placeholder \o <<"+">> \o Placeholder, <<"-", "x">>>>,
                  input_method |-> "arg"])
    @@ (Plain :> [type |-> Bash, command |-> Llm, args |-> <<<<"-", "n">>>>,
                  input_method |-> "arg"])
    @@ (Piped :> [type |-> Bash, command |-> Llm,
                  args |-> <<<<"-", "p">>, Placeholder>>,
                  input_method |-> "stdin"])

CommandMessages == {<<>>, Hi, Placeholder, <<"a", NL, "b">>}
\* a history of two messages, the second with a newline in its content
SpokenPair ==
    <<[turn |-> 1, speaker |-> Host, content |-> Hi, timestamp |-> isoformat(0)],
      [turn |-> 2, speaker |-> Bot, content |-> <<"a", NL, "b">>,
       timestamp |-> isoformat(0)]>>
CommandHistories == {<<>>, LegacyMessages, SpokenPair}

\* _call_bash_adapter up to create_subprocess_exec: lines 106-172
Spawn(name, message, conversation_history, pass_history) ==
    /\ calls' = [calls EXCEPT ![1] =
                    [NoCall EXCEPT !.st = "running", !.name = name, !.alive = TRUE,
                                   !.timeout = timeout_of(CommandAdapters[name]),
                                   !.input = spawn_input(CommandAdapters[name],
                                                         message, conversation_history,
                                                         pass_history)]]
    /\ srv' = [NoSrv EXCEPT !.tool = "call_adapter", !.names = <<name>>,
                            !.message = message, !.history = conversation_history,
                            !.pass_history = pass_history]
    /\ UNCHANGED <<jsonl, meta, legacy, bak, synced, now, ret, proc, acked,
                   probe, sel, fault>>

NextCommand ==
    \E name \in DOMAIN CommandAdapters, message \in CommandMessages,
       conversation_history \in CommandHistories, pass_history \in BOOLEAN :
        Spawn(name, message, conversation_history, pass_history)

SpecCommand == InitAdapter /\ [][NextCommand]_vars

\* a call has spawned its process
Spawned == srv.tool = "call_adapter" /\ calls[1].st = "running"

\* the adapter of the call, and what its process was given
Called == CommandAdapters[srv.names[1]]
Stdin == calls[1].input.stdin
CommandLine == calls[1].input.command

\* content with each newline made a space
Flat(content) == [k \in 1..Len(content) |-> IF content[k] = NL THEN " " ELSE content[k]]

\* the messages as "speaker: content", " | " between them
RECURSIVE Rendered(_)
Rendered(history) ==
    IF history = <<>> THEN <<>>
    ELSE Head(history).speaker \o <<":", " ">> \o Flat(Head(history).content)
            \o (IF Len(history) = 1 THEN <<>>
                ELSE <<" ", "|", " ">> \o Rendered(Tail(history)))

RECURSIVE Expand(_, _)
Expand(arg, message) ==
    IF arg = <<>> THEN <<>>
    ELSE IF IsPrefix(Placeholder, arg)
    THEN message \o Expand(SubSeq(arg, Len(Placeholder) + 1, Len(arg)), message)
    ELSE <<Head(arg)>> \o Expand(Tail(arg), message)

\* some arg holds the placeholder
HasPlaceholder(args) ==
    \E i \in 1..Len(args) : \E k \in 1..Len(args[i]) :
        IsPrefix(Placeholder, SubSeq(args[i], k, Len(args[i])))

\* the command line written out: the command, the args with the message in
\* place of every placeholder, and the message last when no arg held one
ExpectedCommand(config, message) ==
    IF config.input_method = "arg"
    THEN <<config.command>> \o [i \in 1..Len(config.args) |-> Expand(config.args[i], message)]
            \o (IF ~HasPlaceholder(config.args) /\ message # <<>> THEN <<message>>
                ELSE <<>>)
    ELSE <<config.command>> \o config.args

\* the message is what the process reads, behind the history if there is one
MessageOnStdin ==
    /\ Stdin # None
    /\ Len(srv.message) <= Len(Stdin[1])
    /\ SubSeq(Stdin[1], Len(Stdin[1]) - Len(srv.message) + 1, Len(Stdin[1])) = srv.message

(***************************************************************************)
(* C37.  With input_method arg the command line is the command, then the   *)
(* args with the message in the place of every {message}, then the message *)
(* as one more argument exactly when no arg held the placeholder and the   *)
(* message is not empty; with input_method stdin the args are passed as    *)
(* they are and the message is the standard input of the process.          *)
(***************************************************************************)
C37_CommandConstruction ==
    Spawned =>
        /\ CommandLine = ExpectedCommand(Called, srv.message)
        /\ Called.input_method = "stdin" => MessageOnStdin

\* the same, but for a call with nothing to write to stdin
CommandBuilt ==
    Spawned =>
        /\ CommandLine = ExpectedCommand(Called, srv.message)
        /\ Called.input_method = "stdin" => Stdin = None \/ MessageOnStdin


(***************************************************************************)
(* Interrupted migration: the .jsonl file holds a part of what the         *)
(* migration was writing, and the legacy file is still under its name.     *)
(***************************************************************************)
Interrupted(id) ==
    /\ id \in DOMAIN legacy
    /\ id \in DOMAIN jsonl
    /\ Len(jsonl[id]) < Len(jsonl_text(legacy[id]))
    /\ jsonl[id] = head_chars(jsonl_text(legacy[id]), Len(jsonl[id]))

\* the step is a read_messages of a conversation whose legacy file is not
\* migrated, or is migrated in part
ReadsUnmigrated(id) ==
    /\ ret'.op = "read"
    /\ sanitize_id(ret'.cid) = id
    /\ fault' = fault
    /\ id \in DOMAIN legacy
    /\ id \notin DOMAIN jsonl \/ Interrupted(id)

(***************************************************************************)
(* C38.  An interrupted migration never masks the legacy data: a           *)
(* read_messages of a conversation whose legacy file is not migrated, or   *)
(* whose .jsonl file a failed write left in part, returns every legacy     *)
(* message or none, never a strict prefix of them, and on a file system    *)
(* that does not fail the read completes the migration and returns every   *)
(* legacy message.                                                         *)
(***************************************************************************)
C38_Step ==
    \A id \in DOMAIN legacy :
        ReadsUnmigrated(id) =>
            /\ ret'.out \in {legacy[id], <<>>}
            /\ fault.kind = "none" => ret'.out = legacy[id] /\ ~Interrupted(id)'

C38_NeverMasksLegacy == [][C38_Step]_vars

\* what the read of a conversation with a legacy file does return: the first
\* complete lines of the file as it is, the legacy file left as it was
ReadsWhatWasWritten ==
    [][\A id \in DOMAIN legacy :
           ReadsUnmigrated(id) =>
               /\ \E n \in 0..Len(legacy[id]) : ret'.out = SubSeq(legacy[id], 1, n)
               /\ Interrupted(id) => jsonl' = jsonl /\ legacy' = legacy]_vars


(***************************************************************************)
(* Supplied ids: create_conversation, append_message and read_messages     *)
(* called with ids of which some hold a character the sanitizer drops.     *)
(***************************************************************************)
BangId == <<"c", "o", "n", "v", "_", "2", "!">>
SuppliedIds == {ConvId, DottedId, Conv2, BangId}

NextSupplied ==
    \/ \E cid \in SuppliedIds, in \in CreateInputs, ord \in CreateOrders :
          CreateConversation(cid, in, RandLo, ord)
    \/ \E cid \in SuppliedIds, in \in AppendInputs :
          \E ord \in Orders(meta, {cid}) : AppendMessage(cid, in.sp, in.co, ord)
    \/ \E cid \in SuppliedIds : ReadMessages(cid)

SpecSupplied == Init /\ [][NextSupplied]_vars

\* the step is a create_conversation with an id the caller supplied
CreateSupplied == ret'.op = "create" /\ ret'.cid # <<>> /\ fault' = fault

\* the conversations of the store, by the names of their files
Stored == DOMAIN jsonl \cup DOMAIN legacy

\* an id without the characters that are not letters, digits, "-" or "_":
\* of the characters of SuppliedIds these are "." and "!"
RECURSIVE Kept(_)
Kept(id) ==
    IF id = <<>> THEN <<>>
    ELSE IF Head(id) \in {".", "!"} THEN Kept(Tail(id))
    ELSE <<Head(id)>> \o Kept(Tail(id))

(***************************************************************************)
(* C39 as stated.  Whenever create_conversation succeeds with a supplied   *)
(* id it returns that id character for character, and it raises for an     *)
(* existing conversation only when the store holds a conversation under    *)
(* the supplied id itself, so that two distinct supplied ids never name    *)
(* the same conversation.                                                  *)
(***************************************************************************)
C39_StepVerbatim ==
    CreateSupplied =>
        /\ Created => ret'.out = ret'.cid
        /\ ret'.raised => ret'.cid \in Stored

C39_Step ==
    CreateSupplied =>
        /\ Created => ret'.out = Kept(ret'.cid) /\ ret'.out \in DOMAIN jsonl'
        /\ ret'.raised <=> Kept(ret'.cid) \in Stored
        /\ ret'.raised => FS' = FS

CrashInUpdate(kept) ==
    /\ proc["w1"].pc = "update"
    /\ Crash(kept)

NextRestart ==
    \/ \E in \in AppendInputs : AppendBegin("w1", ConvId, in.sp, in.co)
    \/ \E k \in ChunkSizes(proc["w1"]) : AppendWrite("w1", k)
    \/ AppendSync("w1")
    \/ \E ord \in Orders(meta, {ConvId}) : AppendReturn("w1", ord)
    \/ \E kept \in {"none", "part", "all"} : CrashInUpdate(kept)
    \/ ReadMessages(ConvId)
    \/ \E ord \in Orders(meta, {ConvId}) : GetMetadata(ConvId, ord)

SpecRestart == Init /\ [][NextRestart]_vars

\* the speakers of a log
Speakers(log) == {log[i].speaker : i \in 1..Len(log)}

\* the step is a get_metadata of ConvId while no append is under way
MetadataAtRest ==
    /\ ret'.op = "get_metadata"
    /\ ret'.cid = ConvId
    /\ fault' = fault
    /\ proc["w1"].pc = "idle"

(***************************************************************************)
(* C40.  After a crash inside append_message that came after the fsync of  *)
(* the log record and before the update of the metadata, get_metadata      *)
(* reports the message_count and the participants of the log: whenever no  *)
(* append is under way, the metadata it returns counts the messages of the *)
(* log and names their speakers.                                           *)
(***************************************************************************)
C40_Step ==
    MetadataAtRest =>
        /\ ret'.out[1].message_count = Len(Log(FS', ConvId))
        /\ Range(ret'.out[1].participants) = Speakers(Log(FS', ConvId))

C40_MetadataFollowsLog == [][C40_Step]_vars

\* what get_metadata does report: the sidecar when there is one, which is
\* never ahead of the log
ReportsSidecar ==
    [][MetadataAtRest =>
           /\ ConvId \in DOMAIN meta => ret'.out[1] = meta[ConvId]
           /\ ret'.out[1].message_count <= Len(Log(FS', ConvId))
           /\ Range(ret'.out[1].participants) \subseteq Speakers(Log(FS', ConvId))]_vars

====
